---------------------------- MODULE Spec2Model ----------------------------
(***************************************************************************)
(* Model of the resilient multi-provider data acquisition layer            *)
(* (backend/app/services/multi_source_data.py) and of the backtesting      *)
(* replay loop (backend/app/services/backtesting_engine.py).               *)
(*                                                                         *)
(* Time is an integer number of seconds (datetime.utcnow()).  None is      *)
(* modelled by NoTime.                                                     *)
(***************************************************************************)
EXTENDS Integers, Sequences, FiniteSets, TLC

(***************************************************************************)
(* Configuration constants, multi_source_data.py lines 53-59.              *)
(***************************************************************************)
MAX_RETRIES == 3
INITIAL_RETRY_DELAY == 1
MAX_RETRY_DELAY == 10
REQUEST_TIMEOUT == 30
CIRCUIT_BREAKER_THRESHOLD == 5
CIRCUIT_BREAKER_TIMEOUT == 300
ACTIVE_THRESHOLD == 300

\* None for a timestamp (last_failure_time, last_success, last_error).
NoTime == -1

(***************************************************************************)
(* Bounds of the model.                                                    *)
(***************************************************************************)
\* The simulated clock stops advancing at MaxNow seconds.
MaxNow == 800
\* Number of operations applied to the stand-alone circuit breaker.
MaxCBCalls == 9

\* The amounts by which the simulated clock advances in one step: for the
\* stand-alone breaker, and between the steps of the service.
ClockSteps == {100}
ServiceClockSteps == {CIRCUIT_BREAKER_TIMEOUT + 1}

VARIABLES
    now,          \* the clock read by datetime.utcnow()
    breaker,      \* a stand-alone CircuitBreaker object
    cb_op,        \* the last operation called on breaker
    cb_ret,       \* what the last can_attempt() on breaker returned
    cb_calls,     \* number of operations called on breaker so far
    cb_streak     \* call_failed() calls since construction or the last call_succeeded()

cbvars == <<breaker, cb_op, cb_ret, cb_calls, cb_streak>>

(***************************************************************************)
(* class CircuitBreaker                                                    *)
(***************************************************************************)
\* CircuitBreaker.__init__
CircuitBreaker(threshold, timeout) ==
    [threshold |-> threshold, timeout |-> timeout, failure_count |-> 0,
     last_failure_time |-> NoTime, state |-> "closed"]

\* call_failed with the comparison mistaken for a strict one.
call_failed_strict(cb, t) ==
    LET n == cb.failure_count + 1
    IN  [cb EXCEPT !.failure_count = n,
                   !.last_failure_time = t,
                   !.state = IF n > cb.threshold THEN "open" ELSE @]

\* call_failed that forgets to stamp last_failure_time.
call_failed_nostamp(cb, t) ==
    LET n == cb.failure_count + 1
    IN  [cb EXCEPT !.failure_count = n,
                   !.state = IF n >= cb.threshold THEN "open" ELSE @]

\* CircuitBreaker.call_failed, read at clock t
call_failed(cb, t) ==
    LET n == cb.failure_count + 1
    IN  [cb EXCEPT !.failure_count = n,
                   !.last_failure_time = t,
                   !.state = IF n >= cb.threshold THEN "open" ELSE @]

\* call_succeeded that resets the count and leaves the state alone.
call_succeeded_keepstate(cb) ==
    [cb EXCEPT !.failure_count = 0]

\* CircuitBreaker.call_succeeded
call_succeeded(cb) ==
    [cb EXCEPT !.failure_count = 0, !.state = "closed"]

\* can_attempt with the elapsed-time comparison mistaken for >=.
can_attempt_geq(cb, t) ==
    IF cb.state = "closed" THEN [ok |-> TRUE, cb |-> cb]
    ELSE IF cb.state = "open" THEN
        IF cb.last_failure_time # NoTime /\ t - cb.last_failure_time >= cb.timeout
        THEN [ok |-> TRUE, cb |-> [cb EXCEPT !.state = "half-open"]]
        ELSE [ok |-> FALSE, cb |-> cb]
    ELSE [ok |-> TRUE, cb |-> cb]

\* CircuitBreaker.can_attempt, read at clock t: the value returned and the
\* breaker after the call.
can_attempt(cb, t) ==
    IF cb.state = "closed" THEN [ok |-> TRUE, cb |-> cb]
    ELSE IF cb.state = "open" THEN
        IF cb.last_failure_time # NoTime /\ t - cb.last_failure_time > cb.timeout
        THEN [ok |-> TRUE, cb |-> [cb EXCEPT !.state = "half-open"]]
        ELSE [ok |-> FALSE, cb |-> cb]
    ELSE [ok |-> TRUE, cb |-> cb]

(***************************************************************************)
(* The clock.                                                              *)
(***************************************************************************)
Tick(steps, horizon) ==
    \E d \in steps :
        /\ now + d <= horizon
        /\ now' = now + d

(***************************************************************************)
(* A stand-alone circuit breaker driven by any sequence of calls.          *)
(***************************************************************************)
CBInit ==
    /\ breaker = CircuitBreaker(CIRCUIT_BREAKER_THRESHOLD, CIRCUIT_BREAKER_TIMEOUT)
    /\ cb_op = "init"
    /\ cb_ret = TRUE
    /\ cb_calls = 0
    /\ cb_streak = 0

CBCallFailed ==
    /\ cb_calls < MaxCBCalls
    /\ breaker' = call_failed(breaker, now)
    /\ cb_op' = "call_failed"
    /\ cb_calls' = cb_calls + 1
    /\ cb_streak' = cb_streak + 1
    /\ UNCHANGED <<cb_ret, now>>

CBCallSucceeded ==
    /\ cb_calls < MaxCBCalls
    /\ breaker' = call_succeeded(breaker)
    /\ cb_op' = "call_succeeded"
    /\ cb_calls' = cb_calls + 1
    /\ cb_streak' = 0
    /\ UNCHANGED <<cb_ret, now>>

CBCanAttempt ==
    /\ cb_calls < MaxCBCalls
    /\ LET r == can_attempt(breaker, now)
       IN  /\ breaker' = r.cb
           /\ cb_ret' = r.ok
    /\ cb_op' = "can_attempt"
    /\ cb_calls' = cb_calls + 1
    /\ UNCHANGED <<cb_streak, now>>

CBTick ==
    /\ Tick(ClockSteps, MaxNow)
    /\ UNCHANGED cbvars

(***************************************************************************)
(* class MultiSourceDataService                                            *)
(***************************************************************************)
\* Keys of provider_stats and circuit_breakers (__init__).
ProviderNames == {"alpaca", "alpha_vantage", "polygon", "coinbase", "yfinance"}

\* The error classes of utils/data_exceptions.py an adapter call can end with;
\* "DataProviderError" is what _categorize_error makes of an exception that
\* matches none of its keywords.
RetryableErrors == {"NetworkError", "RateLimitError"}
NonRetryableErrors ==
    {"AuthenticationError", "InvalidSymbolError", "DataValidationError", "EmptyDataError"}
ErrorKinds == RetryableErrors \cup NonRetryableErrors \cup {"DataProviderError"}

\* max_retries of the adapters' @retry_with_backoff(max_retries=2).
ADAPTER_MAX_RETRIES == 2

\* Prices a vendor quotes.
PriceValues == {10, 20}

\* Bars and bar series a vendor returns.
Bar(o, h, l, c) == [open |-> o, high |-> h, low |-> l, close |-> c, volume |-> 1]
GoodSeries == <<Bar(10, 12, 9, 11), Bar(11, 11, 11, 11)>>
BadSeries == <<Bar(10, 12, 9, 11), Bar(10, 9, 12, 11)>>
SeriesValues == {GoodSeries, BadSeries}

\* What a fetch or an adapter hands back: a price (0 stands for None) for a
\* price fetch, a bar series ([] is <<>>) for a historical fetch.
PriceVal(v) == [price |-> v, bars |-> <<>>]
BarsVal(b) == [price |-> 0, bars |-> b]
NoData == [price |-> 0, bars |-> <<>>]

\* The fallback chains: the client looked up in self.providers and the
\* provider whose statistics and breaker the attempt is charged to.
Entry(client, name) == [client |-> client, name |-> name]
\* A variant that asks polygon before alpaca.
StockPriceChainPolygonFirst ==
    <<Entry("polygon", "polygon"), Entry("alpaca_stock", "alpaca"),
      Entry("alpha_vantage", "alpha_vantage"), Entry("yfinance", "yfinance")>>
StockPriceChain ==
    <<Entry("alpaca_stock", "alpaca"), Entry("polygon", "polygon"),
      Entry("alpha_vantage", "alpha_vantage"), Entry("yfinance", "yfinance")>>
StockHistChain ==
    <<Entry("alpaca_stock", "alpaca"), Entry("yfinance", "yfinance")>>
CryptoPriceChain ==
    <<Entry("alpaca_crypto", "alpaca"), Entry("coinbase", "coinbase"),
      Entry("yfinance", "yfinance")>>
CryptoHistChain ==
    <<Entry("alpaca_crypto", "alpaca"), Entry("yfinance", "yfinance")>>

ChainOf(kind, crypto) ==
    IF crypto
    THEN (IF kind = "price" THEN CryptoPriceChain ELSE CryptoHistChain)
    ELSE (IF kind = "price" THEN StockPriceChain ELSE StockHistChain)

\* The sets of clients _initialize_providers can leave in self.providers.
FullConfig ==
    {"alpaca_stock", "alpaca_crypto", "polygon", "alpha_vantage", "coinbase", "yfinance"}
SmallConfig == {"alpaca_stock", "alpaca_crypto"}
PairConfig == {"alpaca_stock", "alpaca_crypto", "yfinance"}
Configs == {FullConfig, SmallConfig}

\* The coroutines that call the service: one in the runs with a single
\* caller, two in the runs with concurrent callers.
Tasks == {"t1"}
ConcTasks == {"t1", "t2"}

VARIABLES
    providers,         \* self.providers: the clients that were initialised
    provider_stats,    \* self.provider_stats
    circuit_breakers,  \* self.circuit_breakers
    fetch,             \* per task: the get_price / get_historical_data call in flight
    nfetch,            \* number of fetches started so far
    workload,          \* what the callers and the vendors do in this run: number of fetches, their kinds, the errors and the crypto outcomes
    session,           \* what happened to each provider since construction (history)
    status_report      \* what get_provider_status has just returned, if it was the last call

svars == <<providers, provider_stats, circuit_breakers, fetch, nfetch>>

\* One entry of provider_stats (last_error_msg, a log string, is left out).
NewStats ==
    [last_success |-> NoTime, last_error |-> NoTime,
     request_count |-> 0, success_count |-> 0, error_count |-> 0]

\* The adapter call that finished last in a fetch: its provider, how it ended
\* ("ok" or the error it let out), the attempts made and the backoff sleeps.
NoCall == [name |-> "none", first |-> "none", end |-> "none", attempts |-> 0, sleeps |-> <<>>]

\* One call of get_price / get_historical_data.  Its position (pc, idx,
\* attempt, delay), what it will return (res, raised), and a record of what
\* it did: the providers whose adapter it invoked, in order (invoked); those
\* whose breaker refused an attempt when their block was reached (forbidden);
\* those whose block ended in an exception handler (failed), among them those
\* that used up their retries (exhausted); those that answered with nothing
\* usable (empty); the provider that succeeded (winner) and the value its
\* adapter returned (quoted); and provider_stats as it was at the call (stats0).
IdleFetch ==
    [pc |-> "idle", kind |-> "price", crypto |-> FALSE, idx |-> 0,
     attempt |-> 0, delay |-> 0, nattempts |-> 0, sleeps |-> <<>>,
     firsterr |-> "none", lasterr |-> "none", lastcall |-> NoCall,
     invoked |-> <<>>, forbidden |-> {}, failed |-> {}, exhausted |-> {},
     empty |-> {},
     winner |-> "none", quoted |-> NoData, res |-> NoData, raised |-> FALSE,
     stats0 |-> [p \in ProviderNames |-> NewStats]]

NoStatus == <<>>

\* The history of the session, kept beside the service: the providers that
\* raised AuthenticationError, those that failed with anything but an
\* EmptyDataError, the provider blocks that ended in a success and in a
\* failure (and those of crypto fetches among the latter), and the failures
\* of each provider since its last success (in all fetches, and in equity
\* fetches alone); and the attempts that each breaker admitted since it
\* became half-open and that no call_succeeded() or call_failed() has followed.
NoHistory ==
    [auth_failed |-> {},
     failed_otherwise |-> {},
     succeeded |-> [p \in ProviderNames |-> 0],
     failed |-> [p \in ProviderNames |-> 0],
     failed_crypto |-> [p \in ProviderNames |-> 0],
     streak |-> [p \in ProviderNames |-> 0],
     streak_equity |-> [p \in ProviderNames |-> 0],
     probes |-> [p \in ProviderNames |-> 0]]

\* Number of fetches started in one run of the service: with every provider
\* configured, and with the small configuration.
MaxFetches == 2
MaxFetchesSmall == 6
FetchKinds == {"price", "hist"}
OutcomeKinds == {"ok", "empty", "exc", "hang"}
Budget == IF providers = FullConfig THEN MaxFetches ELSE MaxFetchesSmall

\* MultiSourceDataService.__init__
ServiceInit ==
    /\ providers \in Configs
    /\ status_report = NoStatus
    /\ provider_stats = [p \in ProviderNames |-> NewStats]
    /\ circuit_breakers =
         [p \in ProviderNames |->
            CircuitBreaker(CIRCUIT_BREAKER_THRESHOLD, CIRCUIT_BREAKER_TIMEOUT)]
    /\ fetch = [t \in ConcTasks |-> IdleFetch]
    /\ nfetch = 0
    /\ workload = [fetches |-> Budget, kinds |-> FetchKinds, errors |-> ErrorKinds,
                   outcomes |-> OutcomeKinds]
    /\ session = NoHistory

\* validate_price_data({'price': price}, symbol): TRUE when it returns,
\* FALSE when it raises DataValidationError.
validate_price_data(price) == price > 0

\* A bar is a record of the fields it carries; a field that is absent from
\* the dict, or None, is absent from the record.
REQUIRED_FIELDS == {"open", "high", "low", "close", "volume"}
MissingFields(bar) == {f \in REQUIRED_FIELDS : f \notin DOMAIN bar}

\* A variant of the check of one bar without the OHLC relationship.
ValidBarPositiveOnly(bar) ==
    /\ MissingFields(bar) = {}
    /\ bar.open > 0 /\ bar.high > 0 /\ bar.low > 0 /\ bar.close > 0
\* validate_historical_data's check of one bar: TRUE when none of its three
\* tests raises.
ValidBar(bar) ==
    /\ MissingFields(bar) = {}
    /\ bar.low <= bar.open /\ bar.open <= bar.high
    /\ bar.low <= bar.close /\ bar.close <= bar.high
    /\ bar.open > 0 /\ bar.high > 0 /\ bar.low > 0 /\ bar.close > 0

\* validate_historical_data(data, symbol, min_bars): "True" when it returns,
\* else the error it raises and, for a bar's error, the index i of that bar.
validate_historical_data(data, min_bars) ==
    IF data = <<>> THEN [outcome |-> "EmptyDataError", bar |-> -1]
    ELSE IF Len(data) < min_bars THEN [outcome |-> "EmptyDataError", bar |-> -1]
    ELSE IF \E k \in 1..Len(data) : ~ValidBar(data[k])
    THEN LET k == CHOOSE j \in 1..Len(data) :
                      /\ ~ValidBar(data[j])
                      /\ \A h \in 1..(j - 1) : ValidBar(data[h])
         IN  [outcome |-> "DataValidationError", bar |-> k - 1]
    ELSE [outcome |-> "True", bar |-> -1]

\* retry_with_backoff that retries every error.
retry_all_errors(attempt, max_retries, err) ==
    IF attempt < max_retries THEN "sleep" ELSE "raise"

\* retry_with_backoff that allows one attempt too many.
retry_one_more(attempt, max_retries, err) ==
    IF err \in RetryableErrors
    THEN (IF attempt <= max_retries THEN "sleep" ELSE "raise")
    ELSE "raise"

\* retry_with_backoff's wrapper, one pass of its loop body when the wrapped
\* call raised err at attempt number attempt (0-based): sleep and go round
\* again, or let the error out.
retry_with_backoff(attempt, max_retries, err) ==
    IF err \in RetryableErrors
    THEN (IF attempt < max_retries THEN "sleep" ELSE "raise")
    ELSE "raise"

\* The delay after a backoff sleep, doubled without the cap.
NextDelayUncapped(delay) == delay * 2
\* The delay after a backoff sleep.
NextDelay(delay) == IF delay * 2 < MAX_RETRY_DELAY THEN delay * 2 ELSE MAX_RETRY_DELAY

\* _record_success
record_success(stats, cbs, p, t) ==
    [stats |-> [stats EXCEPT ![p].last_success = t, ![p].success_count = @ + 1],
     cbs |-> [cbs EXCEPT ![p] = call_succeeded(@)]]

\* _record_failure that leaves the error counter alone.
record_failure_nocount(stats, cbs, p, t) ==
    [stats |-> [stats EXCEPT ![p].last_error = t],
     cbs |-> [cbs EXCEPT ![p] = call_failed(@, t)]]

\* _record_failure
record_failure(stats, cbs, p, t) ==
    [stats |-> [stats EXCEPT ![p].last_error = t, ![p].error_count = @ + 1],
     cbs |-> [cbs EXCEPT ![p] = call_failed(@, t)]]

\* The guard of one provider block that ignores the breaker.
MayTryNoBreaker(e, cbs) == e.client \in providers

\* The guard of one provider block of _get_stock_price / _get_stock_historical:
\* the client is configured and its breaker permits an attempt.
MayTry(e, cbs) ==
    /\ e.client \in providers
    /\ can_attempt(cbs[e.name], now).ok

\* Position of the first provider block at or after idx whose guard holds,
\* Len(chain) + 1 when there is none.
RECURSIVE NextAttemptable(_, _, _)
NextAttemptable(chain, idx, cbs) ==
    IF idx > Len(chain) THEN idx
    ELSE IF MayTry(chain[idx], cbs) THEN idx
    ELSE NextAttemptable(chain, idx + 1, cbs)

\* The handlers "except DataProviderError" and "except Exception" of a
\* provider block: whether an error of this kind is caught there.
HandlerCatchesOnlyKnown(err) == err # "DataProviderError"
HandlerCatches(err) == err \in ErrorKinds

\* Control reaches the provider block at position idx of the chain: blocks
\* whose guard fails are passed over; the first one whose guard holds counts a
\* request and calls its adapter; past the last block the fetch returns no data.
EnterBlock(f, stats, cbs, idx) ==
    LET chain == ChainOf(f.kind, f.crypto)
        j == NextAttemptable(chain, idx, cbs)
        refused == {chain[k].name : k \in {k \in idx..(j - 1) :
                                               ~can_attempt(cbs[chain[k].name], now).ok}}
    IN  IF j > Len(chain)
        THEN [f |-> [f EXCEPT !.pc = "done", !.res = NoData, !.idx = j,
                              !.forbidden = @ \cup refused],
              stats |-> stats, cbs |-> cbs]
        ELSE LET p == chain[j].name
             IN  [f |-> [f EXCEPT !.pc = "call", !.idx = j, !.attempt = 0,
                                  !.delay = INITIAL_RETRY_DELAY, !.nattempts = 0,
                                  !.sleeps = <<>>, !.firsterr = "none", !.lasterr = "none",
                                  !.invoked = Append(@, p),
                                  !.forbidden = @ \cup refused],
                  stats |-> [stats EXCEPT ![p].request_count = @ + 1],
                  cbs |-> [cbs EXCEPT ![p] = can_attempt(@, now).cb]]

\* The adapter of the current block let an error out: the handler records the
\* failure and control falls through to the next block.
AfterFailure(f, stats, cbs) ==
    LET p == ChainOf(f.kind, f.crypto)[f.idx].name
        r == record_failure(stats, cbs, p, now)
    IN  EnterBlock([f EXCEPT !.failed = @ \cup {p}], r.stats, r.cbs, f.idx + 1)

\* What the vendor behind a crypto provider block does with one call: it
\* answers with a value, answers with nothing usable, raises, or never
\* answers.
CryptoOutcomes(kind) ==
    {[o |-> "empty", v |-> NoData], [o |-> "exc", v |-> NoData],
     [o |-> "hang", v |-> NoData]}
    \cup (IF kind = "price"
          THEN {[o |-> "ok", v |-> PriceVal(v)] : v \in PriceValues}
          ELSE {[o |-> "ok", v |-> BarsVal(b)] : b \in SeriesValues \cup {<<>>}})

\* The provider blocks of _get_crypto_price / _get_crypto_historical from
\* position idx on, outs[k] being what the vendor of block k does.
RECURSIVE CryptoBlocks(_, _, _, _)
CryptoBlocks(f, stats, idx, outs) ==
    LET chain == ChainOf(f.kind, TRUE)
    IN  IF idx > Len(chain)
        THEN [f |-> [f EXCEPT !.pc = "done", !.res = NoData, !.idx = idx], stats |-> stats]
        ELSE LET e == chain[idx]
                 p == e.name
                 counted == [stats EXCEPT ![p].request_count = @ + 1]
                 g == [f EXCEPT !.idx = idx, !.invoked = Append(@, p), !.nattempts = 1,
                                !.forbidden = IF can_attempt(circuit_breakers[p], now).ok
                                              THEN @ ELSE @ \cup {p}]
             IN  IF e.client \notin providers
                 THEN CryptoBlocks(f, stats, idx + 1, outs)
                 ELSE IF outs[idx].o = "ok"
                 THEN [f |-> [g EXCEPT !.pc = "done", !.res = outs[idx].v,
                                       !.quoted = outs[idx].v, !.winner = p],
                       stats |-> [counted EXCEPT ![p].last_success = now,
                                                 ![p].success_count = @ + 1]]
                 ELSE IF outs[idx].o = "hang"
                 THEN [f |-> [g EXCEPT !.pc = "hung"], stats |-> counted]
                 ELSE IF outs[idx].o = "exc"
                 THEN CryptoBlocks([g EXCEPT !.failed = @ \cup {p}],
                                   [counted EXCEPT ![p].last_error = now],
                                   idx + 1, outs)
                 ELSE CryptoBlocks([g EXCEPT !.empty = @ \cup {p}], counted,
                                   idx + 1, outs)

\* A new call of get_price or get_historical_data, before its first statement.
NewFetch(kind, crypto) ==
    [IdleFetch EXCEPT !.kind = kind, !.crypto = crypto, !.stats0 = provider_stats]

Quiet == \A t \in ConcTasks : fetch[t].pc # "done"

\* get_price / get_historical_data on an equity symbol, up to the first await
\* (the first adapter call) or to the return when no provider can be tried.
StartStockFetch(t) ==
    /\ fetch[t].pc = "idle"
    /\ Quiet
    /\ nfetch < workload.fetches
    /\ \E kind \in workload.kinds :
         LET r == EnterBlock(NewFetch(kind, FALSE), provider_stats, circuit_breakers, 1)
         IN  /\ fetch' = [fetch EXCEPT ![t] = r.f]
             /\ provider_stats' = r.stats
             /\ circuit_breakers' = r.cbs
    /\ nfetch' = nfetch + 1
    /\ UNCHANGED <<providers, now>>

\* get_price / get_historical_data on a crypto symbol: the whole call, which
\* never awaits.
CryptoFetch(t) ==
    /\ fetch[t].pc = "idle"
    /\ Quiet
    /\ nfetch < workload.fetches
    /\ \E kind \in workload.kinds :
         \E outs \in [1..Len(ChainOf(kind, TRUE)) ->
                          {c \in CryptoOutcomes(kind) : c.o \in workload.outcomes}] :
           LET r == CryptoBlocks(NewFetch(kind, TRUE), provider_stats, 1, outs)
           IN  /\ fetch' = [fetch EXCEPT ![t] = r.f]
               /\ provider_stats' = r.stats
    /\ nfetch' = nfetch + 1
    /\ UNCHANGED <<providers, circuit_breakers, now>>

\* The values an adapter of a stock chain can return: a positive price, or a
\* non-empty bar series.
AdapterValues(kind) ==
    IF kind = "price" THEN {PriceVal(v) : v \in PriceValues}
    ELSE {BarsVal(b) : b \in SeriesValues}

\* "if price:" / "if data:" and the validation that follows it.
Truthy(kind, v) == IF kind = "price" THEN v.price # 0 ELSE v.bars # <<>>
Validates(kind, v) ==
    IF kind = "price" THEN validate_price_data(v.price)
    ELSE validate_historical_data(v.bars, 1).outcome = "True"

\* The awaited adapter call of the current block returns a value: the block
\* validates it and returns it, or records the validation failure and falls
\* through.
AdapterReturns(t) ==
    LET f == fetch[t]
        p == ChainOf(f.kind, f.crypto)[f.idx].name
    IN  /\ f.pc = "call"
        /\ \E v \in AdapterValues(f.kind) :
             LET g == [f EXCEPT !.nattempts = @ + 1,
                                !.lastcall = [name |-> p, end |-> "ok",
                                              first |-> f.firsterr,
                                              attempts |-> f.nattempts + 1,
                                              sleeps |-> f.sleeps]]
             IN  IF ~Truthy(f.kind, v)
                 THEN LET r == EnterBlock([g EXCEPT !.empty = @ \cup {p}],
                                          provider_stats, circuit_breakers, f.idx + 1)
                      IN  /\ fetch' = [fetch EXCEPT ![t] = r.f]
                          /\ provider_stats' = r.stats
                          /\ circuit_breakers' = r.cbs
                 ELSE IF Validates(f.kind, v)
                 THEN LET r == record_success(provider_stats, circuit_breakers, p, now)
                      IN  /\ fetch' = [fetch EXCEPT ![t] =
                                         [g EXCEPT !.pc = "done", !.res = v,
                                                   !.quoted = v, !.winner = p]]
                          /\ provider_stats' = r.stats
                          /\ circuit_breakers' = r.cbs
                 ELSE LET r == AfterFailure(g, provider_stats, circuit_breakers)
                      IN  /\ fetch' = [fetch EXCEPT ![t] = r.f]
                          /\ provider_stats' = r.stats
                          /\ circuit_breakers' = r.cbs
        /\ UNCHANGED <<providers, nfetch, now>>

\* The awaited adapter call of the current block raises: the retry wrapper
\* sleeps before another attempt, or lets the error out to the block's
\* handlers.
AdapterRaisesWith(t, err) ==
    LET f == fetch[t]
        p == ChainOf(f.kind, f.crypto)[f.idx].name
    IN  /\ LET g == [f EXCEPT !.nattempts = @ + 1, !.lasterr = err,
                                !.lastcall = [name |-> p, end |-> err,
                                              first |-> IF f.attempt = 0 THEN err
                                                        ELSE f.firsterr,
                                              attempts |-> f.nattempts + 1,
                                              sleeps |-> f.sleeps],
                                !.exhausted = IF err \in RetryableErrors
                                              THEN @ \cup {p} ELSE @]
             IN  IF retry_with_backoff(f.attempt, ADAPTER_MAX_RETRIES, err) = "sleep"
                 THEN /\ fetch' = [fetch EXCEPT ![t] =
                                     [f EXCEPT !.nattempts = @ + 1, !.lasterr = err,
                                               !.firsterr = IF f.attempt = 0 THEN err
                                                            ELSE @,
                                               !.lastcall = NoCall,
                                               !.pc = "sleep",
                                               !.sleeps = Append(@, f.delay)]]
                      /\ UNCHANGED <<provider_stats, circuit_breakers>>
                 ELSE IF HandlerCatches(err)
                 THEN LET r == AfterFailure(g, provider_stats, circuit_breakers)
                      IN  /\ fetch' = [fetch EXCEPT ![t] = r.f]
                          /\ provider_stats' = r.stats
                          /\ circuit_breakers' = r.cbs
                 ELSE /\ fetch' = [fetch EXCEPT ![t] =
                                     [g EXCEPT !.pc = "done", !.raised = TRUE]]
                      /\ UNCHANGED <<provider_stats, circuit_breakers>>
        /\ UNCHANGED <<providers, nfetch, now>>

AdapterRaises(t) ==
    /\ fetch[t].pc = "call"
    /\ \E err \in workload.errors : AdapterRaisesWith(t, err)

\* The vendor call awaited by the adapter does not answer: the adapter stays
\* in "await with_timeout(...)".
AdapterHangs(t) ==
    /\ fetch[t].pc = "call"
    /\ fetch' = [fetch EXCEPT ![t].pc = "hung"]
    /\ UNCHANGED <<providers, provider_stats, circuit_breakers, nfetch, now>>

\* with_timeout without its handler: asyncio's TimeoutError leaves it, the
\* adapter's "except Exception" hands it to _categorize_error, and its empty
\* message matches no keyword there.
with_timeout_unhandled == "DataProviderError"
\* with_timeout when asyncio.wait_for gives up on the call: the error that
\* leaves it.
with_timeout == "NetworkError"

\* The timer of asyncio.wait_for fires: the error of with_timeout is raised
\* in the adapter, whose "except DataProviderError: raise" passes it on to
\* the retry wrapper.  The crypto blocks call their vendors without it.
TimeoutExpires(t) ==
    /\ fetch[t].pc = "hung"
    /\ ~fetch[t].crypto
    /\ AdapterRaisesWith(t, with_timeout)

\* asyncio.sleep(delay) of the retry wrapper is over: the delay doubles up to
\* the cap and the loop makes its next attempt.
BackoffDone(t) ==
    LET f == fetch[t]
    IN  /\ f.pc = "sleep"
        /\ fetch' = [fetch EXCEPT ![t] =
                       [f EXCEPT !.pc = "call", !.attempt = @ + 1,
                                 !.delay = NextDelay(@)]]
        /\ UNCHANGED <<providers, provider_stats, circuit_breakers, nfetch, now>>

\* A cancellation with handlers that catch CancelledError like any other exception
\* (as "except Exception" did before Python 3.8): the failure is recorded.
CancelCaught(t) ==
    /\ fetch[t].pc \in {"call", "hung", "sleep"}
    /\ ~fetch[t].crypto
    /\ LET p == ChainOf(fetch[t].kind, FALSE)[fetch[t].idx].name
           r == record_failure(provider_stats, circuit_breakers, p, now)
       IN  /\ fetch' = [fetch EXCEPT ![t] = [@ EXCEPT !.pc = "cancelled",
                                                      !.failed = @ \cup {p}]]
           /\ provider_stats' = r.stats
           /\ circuit_breakers' = r.cbs
    /\ UNCHANGED <<providers, nfetch, now>>

\* The caller cancels the task of the fetch while it awaits an adapter call
\* or a backoff sleep: CancelledError is raised at the await, it is not an
\* Exception, so neither the handlers of the retry wrapper nor those of the
\* provider block catch it, and it leaves the fetch.
Cancel(t) ==
    /\ fetch[t].pc \in {"call", "hung", "sleep"}
    /\ ~fetch[t].crypto
    /\ fetch' = [fetch EXCEPT ![t] = [@ EXCEPT !.pc = "cancelled", !.raised = TRUE]]
    /\ UNCHANGED <<providers, provider_stats, circuit_breakers, nfetch, now>>

\* The caller has the result of the fetch, or the CancelledError.
Return(t) ==
    /\ fetch[t].pc \in {"done", "cancelled"}
    /\ fetch' = [fetch EXCEPT ![t] = IdleFetch]
    /\ UNCHANGED <<providers, provider_stats, circuit_breakers, nfetch, now>>

\* The clock advances while the service runs (explored for the small
\* configuration, whose runs are long enough to open a breaker).
ServiceTick ==
    /\ Quiet
    /\ providers = SmallConfig
    /\ Tick(ServiceClockSteps, MaxNow)
    /\ UNCHANGED svars

\* _is_provider_initialized
is_provider_initialized(provider) ==
    IF provider = "alpaca"
    THEN "alpaca_stock" \in providers \/ "alpaca_crypto" \in providers
    ELSE provider \in providers

\* The entry of one provider in the report of get_provider_status: the
\* breaker's state is read before can_attempt() is called on it.  The
\* success rate is in 1/1000, rounded down.
ProviderStatus(provider) ==
    LET stats == provider_stats[provider]
        circuit_breaker == circuit_breakers[provider]
    IN  [available |-> is_provider_initialized(provider),
         active |-> /\ is_provider_initialized(provider)
                    /\ stats.last_success # NoTime
                    /\ now - stats.last_success < ACTIVE_THRESHOLD,
         circuit_breaker_state |-> circuit_breaker.state,
         can_attempt |-> can_attempt(circuit_breaker, now).ok,
         last_success |-> stats.last_success,
         last_error |-> stats.last_error,
         success_count |-> stats.success_count,
         error_count |-> stats.error_count,
         request_count |-> stats.request_count,
         success_rate |-> IF stats.request_count > 0
                          THEN (stats.success_count * 1000) \div stats.request_count
                          ELSE 0]

\* get_provider_status: a synchronous method, run between two steps of the
\* fetches; can_attempt() leaves a breaker whose timeout is over half-open.
GetProviderStatus ==
    /\ status_report' = [p \in ProviderNames |-> ProviderStatus(p)]
    /\ circuit_breakers' =
           [p \in ProviderNames |-> can_attempt(circuit_breakers[p], now).cb]
    /\ UNCHANGED <<providers, provider_stats, fetch, nfetch, workload, now>>

\* A step of the fetches of the given tasks, or of the clock; the report of
\* a status query is with its caller by then.
FetchNext(tasks) ==
    /\ \/ \E t \in tasks : StartStockFetch(t)
       \/ \E t \in tasks : CryptoFetch(t)
       \/ \E t \in tasks : AdapterReturns(t)
       \/ \E t \in tasks : AdapterRaises(t)
       \/ \E t \in tasks : AdapterHangs(t)
       \/ \E t \in tasks : TimeoutExpires(t)
       \/ \E t \in tasks : BackoffDone(t)
       \/ \E t \in tasks : Return(t)
       \/ ServiceTick
    /\ status_report' = NoStatus
    /\ UNCHANGED workload

\* One caller at a time asks for prices and series.
ServiceNext ==
    /\ FetchNext(Tasks)
    /\ UNCHANGED session

\* The same caller also asks for the status of the providers.
StatusNext ==
    /\ \/ FetchNext(Tasks)
       \/ GetProviderStatus
    /\ UNCHANGED session

\* The providers whose adapter let an AuthenticationError out in this step,
\* those whose block ended in a failure, and those whose block succeeded.
NewAuthFailures(tasks) ==
    {p \in ProviderNames :
        \E t \in tasks :
            /\ fetch'[t].lastcall # fetch[t].lastcall
            /\ fetch'[t].lastcall # NoCall
            /\ fetch'[t].lastcall.name = p
            /\ fetch'[t].lastcall.end = "AuthenticationError"}

NewFailures(tasks) ==
    {p \in ProviderNames : \E t \in tasks : p \in fetch'[t].failed \ fetch[t].failed}

\* The providers whose block ended in a failure that was not an
\* EmptyDataError let out by the adapter.
NewOtherFailures(tasks) ==
    {p \in NewFailures(tasks) :
        ~\E t \in tasks :
            /\ fetch'[t].lastcall # fetch[t].lastcall
            /\ fetch'[t].lastcall.name = p
            /\ fetch'[t].lastcall.end = "EmptyDataError"}

NewSuccesses(tasks) ==
    {p \in ProviderNames :
        \E t \in tasks : fetch'[t].winner = p /\ fetch[t].winner # p}

\* The same, in the fetches of the one symbol class.
NewFailuresIn(tasks, crypto) ==
    {p \in ProviderNames :
        \E t \in tasks : fetch'[t].crypto = crypto /\ p \in fetch'[t].failed \ fetch[t].failed}

NewSuccessesIn(tasks, crypto) ==
    {p \in ProviderNames :
        \E t \in tasks :
            fetch'[t].crypto = crypto /\ fetch'[t].winner = p /\ fetch[t].winner # p}

\* The providers whose adapter is invoked in this step by the fetch of t
\* (the block of the provider is entered and its adapter is awaited).
NewlyInvoked(t) ==
    {fetch'[t].invoked[k] : k \in (Len(fetch[t].invoked) + 1)..Len(fetch'[t].invoked)}

\* The providers whose breaker admits an attempt of an equity fetch in this
\* step.
NewlyAdmitted(tasks) ==
    {p \in ProviderNames : \E t \in tasks : ~fetch'[t].crypto /\ p \in NewlyInvoked(t)}

\* The history of the probes after this step: call_succeeded() or
\* call_failed() on the breaker ends the count, an admission while the
\* breaker is half-open (or becomes it) adds to it.
RecordedProbes(tasks) ==
    [session EXCEPT !.probes =
        [p \in ProviderNames |->
            IF p \in NewFailuresIn(tasks, FALSE) \cup NewSuccessesIn(tasks, FALSE) THEN 0
            ELSE IF circuit_breakers'[p].state # "half-open" THEN 0
            ELSE (IF circuit_breakers[p].state = "half-open" THEN session.probes[p] ELSE 0)
                     + (IF p \in NewlyAdmitted(tasks) THEN 1 ELSE 0)]]

\* The history after this step of the tasks: of the authentication
\* failures, and of the ends of the provider blocks.
RecordedAuth(tasks) ==
    [session EXCEPT !.auth_failed = @ \cup NewAuthFailures(tasks),
                    !.failed_otherwise = @ \cup NewOtherFailures(tasks)]

RecordedEnds(tasks) ==
    [auth_failed |-> session.auth_failed,
     failed_otherwise |-> session.failed_otherwise,
     succeeded |-> [p \in ProviderNames |->
                      session.succeeded[p] + IF p \in NewSuccesses(tasks) THEN 1 ELSE 0],
     failed |-> [p \in ProviderNames |->
                   session.failed[p] + IF p \in NewFailures(tasks) THEN 1 ELSE 0],
     failed_crypto |-> [p \in ProviderNames |->
                          session.failed_crypto[p]
                              + IF p \in NewFailuresIn(tasks, TRUE) THEN 1 ELSE 0],
     streak |-> [p \in ProviderNames |->
                   IF p \in NewSuccesses(tasks) THEN 0
                   ELSE IF p \in NewFailures(tasks) THEN session.streak[p] + 1
                   ELSE session.streak[p]],
     streak_equity |-> [p \in ProviderNames |->
                          IF p \in NewSuccessesIn(tasks, FALSE) THEN 0
                          ELSE IF p \in NewFailuresIn(tasks, FALSE)
                               THEN session.streak_equity[p] + 1
                          ELSE session.streak_equity[p]],
     probes |-> session.probes]

\* One caller at a time, and the history of the session.
SessionNext ==
    /\ FetchNext(Tasks)
    /\ session' = RecordedAuth(Tasks)

(***************************************************************************)
(* class BacktestingEngine                                                 *)
(*                                                                         *)
(* Money is counted in thousandths of a dollar and quantities in           *)
(* thousandths of a share, prices in whole dollars; a division rounds down *)
(* where the program's floats round to nearest.  An Optional value is      *)
(* <<>> for None and <<v>> otherwise; dates are bar indexes.               *)
(***************************************************************************)
INITIAL_CAPITAL == 100000
COMMISSION_PER_MILLE == 1
POSITION_SIZE_PCT == 10
MIN_CONFIDENCE == 60
MIN_BARS == 100
WARMUP_BARS == 60
HOURS_PER_BAR == 24
ENTRY_CADENCE == 5
STOP_ATR_MULT == 2
PROFIT_ATR_MULT == 3

\* Longest bar series, and the largest number of qualifying signals the
\* signal generator gives in one run.
MaxBars == 101
MaxSignals == 2
MaxRaises == 1

None == <<>>
Some(v) == <<v>>
Money(dollars) == dollars * 1000

\* Lengths of the bar series _get_historical_data returns.
BarCounts == {0, MIN_BARS - 1, MIN_BARS, MaxBars}

\* df.iloc[i]['close'] for the bar series the run replays.
PricePaths == {"flat", "up", "down"}
Close(path, i) ==
    IF path = "up" THEN 100 + (i - WARMUP_BARS)
    ELSE IF path = "down" THEN 150 - (i - WARMUP_BARS)
    ELSE 100

VARIABLES run

\* The frame of run_backtest; ledger lists every Trade object the run has
\* created, in its present state, and nsignals counts the qualifying signals.
NoRun ==
    [pc |-> "idle", nbars |-> 0, path |-> "flat",
     use_stop_loss |-> TRUE, use_take_profit |-> TRUE,
     i |-> 0, capital |-> 0, trades |-> <<>>, equity_curve |-> <<>>,
     open_position |-> None, ledger |-> <<>>, nsignals |-> 0,
     nraised |-> 0, result |-> None]

BTInit == run = NoRun

\* ai_core.analyze_symbol: the levels of _generate_trade_plan around the
\* current price.
ATRValues == {0, 5}
Max(a, b) == IF a >= b THEN a ELSE b
LiveSignal(signal, confidence, current_price, atr) ==
    [raised |-> FALSE, signal |-> signal, confidence |-> confidence,
     stop_loss |->
         IF signal = "BUY" THEN Max(current_price - atr * STOP_ATR_MULT, 0)
         ELSE IF signal = "SELL" THEN Max(current_price + atr * STOP_ATR_MULT, 0)
         ELSE Max((current_price * 98) \div 100, 0),
     take_profit |->
         IF signal = "BUY" THEN current_price + atr * PROFIT_ATR_MULT
         ELSE IF signal = "SELL" THEN current_price - atr * PROFIT_ATR_MULT
         ELSE (current_price * 102) \div 100]
SignalRaises ==
    [raised |-> TRUE, signal |-> "NEUTRAL", confidence |-> 0,
     stop_loss |-> 0, take_profit |-> 0]
Confidences == {MIN_CONFIDENCE - 10, MIN_CONFIDENCE + 10}
\* A variant of the test that takes a signal of any confidence.
QualifiesAnyConfidence(sig) == ~sig.raised /\ sig.signal # "NEUTRAL"
\* "if signal.confidence >= min_confidence and signal.signal != 'NEUTRAL'",
\* reached when analyze_symbol has returned.
Qualifies(sig) ==
    ~sig.raised /\ sig.confidence >= MIN_CONFIDENCE /\ sig.signal # "NEUTRAL"
SignalOutcomes(current_price) ==
    {SignalRaises}
    \cup {LiveSignal(sg, c, current_price, atr) :
              sg \in {"BUY", "SELL", "NEUTRAL"}, c \in Confidences, atr \in ATRValues}

Trade(entry_time, signal, entry_price, quantity, stop_loss, take_profit, confidence) ==
    [entry_time |-> entry_time, exit_time |-> None, signal |-> signal,
     entry_price |-> entry_price, exit_price |-> None, quantity |-> quantity,
     stop_loss |-> stop_loss, take_profit |-> take_profit, pnl |-> None,
     pnl_pct |-> None, status |-> "open", confidence |-> confidence,
     hold_time_hours |-> None]

IsLong(trade) == trade.signal \in {"BUY", "STRONG_BUY"}

\* A variant of the exit check that looks at the take-profit level first.
check_exit_take_profit_first(trade, current_price, use_stop_loss, use_take_profit) ==
    IF IsLong(trade)
    THEN IF use_take_profit /\ current_price >= trade.take_profit
         THEN [exit |-> TRUE, reason |-> "win"]
         ELSE IF use_stop_loss /\ current_price <= trade.stop_loss
         THEN [exit |-> TRUE, reason |-> "stopped"]
         ELSE [exit |-> FALSE, reason |-> ""]
    ELSE IF use_take_profit /\ current_price <= trade.take_profit
         THEN [exit |-> TRUE, reason |-> "win"]
         ELSE IF use_stop_loss /\ current_price >= trade.stop_loss
         THEN [exit |-> TRUE, reason |-> "stopped"]
         ELSE [exit |-> FALSE, reason |-> ""]

\* _check_exit_conditions
check_exit_conditions(trade, current_price, use_stop_loss, use_take_profit) ==
    IF IsLong(trade)
    THEN IF use_stop_loss /\ current_price <= trade.stop_loss
         THEN [exit |-> TRUE, reason |-> "stopped"]
         ELSE IF use_take_profit /\ current_price >= trade.take_profit
         THEN [exit |-> TRUE, reason |-> "win"]
         ELSE [exit |-> FALSE, reason |-> ""]
    ELSE IF use_stop_loss /\ current_price >= trade.stop_loss
         THEN [exit |-> TRUE, reason |-> "stopped"]
         ELSE IF use_take_profit /\ current_price <= trade.take_profit
         THEN [exit |-> TRUE, reason |-> "win"]
         ELSE [exit |-> FALSE, reason |-> ""]

\* A variant that charges the commission on the entry only.
NetPnlEntryCommissionOnly(trade, exit_price, commission_per_mille) ==
    (IF IsLong(trade)
     THEN (exit_price - trade.entry_price) * trade.quantity
     ELSE (trade.entry_price - exit_price) * trade.quantity)
    - (trade.entry_price * trade.quantity * commission_per_mille) \div 1000
\* Net P&L of closing trade at exit_price, for an engine whose commission_pct
\* is commission_per_mille / 1000.
NetPnl(trade, exit_price, commission_per_mille) ==
    LET gross == IF IsLong(trade)
                 THEN (exit_price - trade.entry_price) * trade.quantity
                 ELSE (trade.entry_price - exit_price) * trade.quantity
    IN  gross
        - (trade.entry_price * trade.quantity * commission_per_mille) \div 1000
        - (exit_price * trade.quantity * commission_per_mille) \div 1000

\* The same for the engine's commission_pct of 0.001.
Pnl(trade, exit_price) == NetPnl(trade, exit_price, COMMISSION_PER_MILLE)

\* "(pnl / (entry_price * quantity)) * 100", in 1/1000 percent; the position
\* value is taken in whole dollars.
PnlPct(trade, pnl) == (pnl * 100) \div ((trade.entry_price * trade.quantity) \div 1000)

ClosedWith(trade, date, exit_price, status, commission_per_mille) ==
    LET pnl == NetPnl(trade, exit_price, commission_per_mille)
    IN  [trade EXCEPT !.exit_time = Some(date), !.exit_price = Some(exit_price),
                      !.pnl = Some(pnl), !.pnl_pct = Some(PnlPct(trade, pnl)),
                      !.status = status]

\* "(exit_time - entry_time).total_seconds() / 3600" for daily bars, set by the
\* exit branch of the loop only.
WithHoldTime(trade) ==
    [trade EXCEPT !.hold_time_hours =
                      Some((trade.exit_time[1] - trade.entry_time) * HOURS_PER_BAR)]

Closed(trade, date, exit_price, status) ==
    ClosedWith(trade, date, exit_price, status, COMMISSION_PER_MILLE)

\* The object open_position refers to is the last one created.
LedgerClose(ledger, trade) == [ledger EXCEPT ![Len(ledger)] = trade]

\* A variant of the exit branch that is only run on the bars of the
\* evaluation cadence.
ExitBlockOnCadence(r) ==
    IF r.open_position = None \/ r.i % ENTRY_CADENCE # 0 THEN r
    ELSE LET trade == r.open_position[1]
             current_price == Close(r.path, r.i)
             x == check_exit_conditions(trade, current_price,
                                        r.use_stop_loss, r.use_take_profit)
             done == WithHoldTime(Closed(trade, r.i, current_price, x.reason))
         IN  IF ~x.exit THEN r
             ELSE [r EXCEPT !.capital = @ + done.pnl[1],
                            !.trades = Append(@, done),
                            !.open_position = None,
                            !.ledger = LedgerClose(@, done),
                            !.equity_curve =
                                Append(@, [date |-> r.i,
                                           equity |-> r.capital + done.pnl[1]])]
\* "if open_position:" and what follows it in the loop body.
ExitBlock(r) ==
    IF r.open_position = None THEN r
    ELSE LET trade == r.open_position[1]
             current_price == Close(r.path, r.i)
             x == check_exit_conditions(trade, current_price,
                                        r.use_stop_loss, r.use_take_profit)
             done == WithHoldTime(Closed(trade, r.i, current_price, x.reason))
         IN  IF ~x.exit THEN r
             ELSE [r EXCEPT !.capital = @ + done.pnl[1],
                            !.trades = Append(@, done),
                            !.open_position = None,
                            !.ledger = LedgerClose(@, done),
                            !.equity_curve =
                                Append(@, [date |-> r.i,
                                           equity |-> r.capital + done.pnl[1]])]

\* A variant that looks for an entry on every cadence bar.
MayEnterWhileOpen(open_position, i) == i % ENTRY_CADENCE = 0
\* "if not open_position and i % 5 == 0".
MayEnter(open_position, i) == open_position = None /\ i % ENTRY_CADENCE = 0

\* A variant of the entry block without its "except Exception": what the
\* signal request raises leaves run_backtest.
EntryBlockWithoutHandler(r, sig) ==
    IF sig.raised THEN [r EXCEPT !.pc = "Exception", !.nraised = @ + 1]
    ELSE IF ~Qualifies(sig) THEN r
    ELSE LET current_price == Close(r.path, r.i)
             position_value == (r.capital * POSITION_SIZE_PCT) \div 100
             quantity == position_value \div current_price
             trade == Trade(r.i, sig.signal, current_price, quantity,
                            sig.stop_loss, sig.take_profit, sig.confidence)
         IN  [r EXCEPT !.open_position = Some(trade),
                       !.ledger = Append(@, trade),
                       !.nsignals = @ + 1]
\* The body of the entry block, sig being what analyze_symbol gave; nraised
\* counts the requests that raised into "except Exception: continue".
EntryBlock(r, sig) ==
    IF sig.raised THEN [r EXCEPT !.nraised = @ + 1]
    ELSE IF ~Qualifies(sig) THEN r
    ELSE LET current_price == Close(r.path, r.i)
             position_value == (r.capital * POSITION_SIZE_PCT) \div 100
             quantity == position_value \div current_price
             trade == Trade(r.i, sig.signal, current_price, quantity,
                            sig.stop_loss, sig.take_profit, sig.confidence)
         IN  [r EXCEPT !.open_position = Some(trade),
                       !.ledger = Append(@, trade),
                       !.nsignals = @ + 1]

\* run_backtest up to the loop: the bar series is fetched and checked.
\* A variant of the data check that refuses an empty series only.
InsufficientDataEmptyOnly(nbars) == nbars = 0
\* "if not historical_data or len(historical_data) < 100".
InsufficientData(nbars) == nbars = 0 \/ nbars < MIN_BARS

RunBacktest ==
    /\ run.pc = "idle"
    /\ \E nbars \in BarCounts, path \in PricePaths, sl \in BOOLEAN, tp \in BOOLEAN :
         run' = IF InsufficientData(nbars)
                THEN [run EXCEPT !.pc = "ValueError", !.nbars = nbars, !.path = path,
                                 !.use_stop_loss = sl, !.use_take_profit = tp]
                ELSE [run EXCEPT !.pc = "loop", !.nbars = nbars, !.path = path,
                                 !.use_stop_loss = sl, !.use_take_profit = tp,
                                 !.i = WARMUP_BARS,
                                 !.capital = Money(INITIAL_CAPITAL),
                                 !.equity_curve =
                                     <<[date |-> 0, equity |-> Money(INITIAL_CAPITAL)]>>]

\* One iteration of "for i in range(60, len(df))".
BacktestBar ==
    /\ run.pc = "loop"
    /\ run.i < run.nbars
    /\ LET r == ExitBlock(run)
       IN  IF MayEnter(r.open_position, r.i)
           THEN \E sig \in SignalOutcomes(Close(r.path, r.i)) :
                    /\ Qualifies(sig) => r.nsignals < MaxSignals
                    /\ sig.raised => r.nraised < MaxRaises
                    /\ run' = [EntryBlock(r, sig) EXCEPT !.i = @ + 1]
           ELSE run' = [r EXCEPT !.i = @ + 1]

\* An iteration whose "await ai_core.analyze_symbol(...)" does not return:
\* the call is awaited as it is, so the run stays there.
SignalHangs ==
    /\ run.pc = "loop"
    /\ run.i < run.nbars
    /\ LET r == ExitBlock(run)
       IN  /\ MayEnter(r.open_position, r.i)
           /\ run' = [r EXCEPT !.pc = "hung"]

\* A variant that leaves the remaining position as it is.
EndOfPeriodLeaveOpen(r) == r
\* A variant of the closure after the loop that leaves the capital as it is.
EndOfPeriodCloseKeepCapital(r) ==
    IF r.open_position = None THEN r
    ELSE LET done == Closed(r.open_position[1], r.nbars - 1,
                            Close(r.path, r.nbars - 1), "end_of_period")
         IN  [r EXCEPT !.trades = Append(@, done),
                       !.open_position = Some(done),
                       !.ledger = LedgerClose(@, done)]
\* "if open_position:" after the loop, and what follows it.
EndOfPeriodClose(r) ==
    IF r.open_position = None THEN r
    ELSE LET done == Closed(r.open_position[1], r.nbars - 1,
                            Close(r.path, r.nbars - 1), "end_of_period")
         IN  [r EXCEPT !.capital = @ + done.pnl[1],
                       !.trades = Append(@, done),
                       !.open_position = Some(done),
                       !.ledger = LedgerClose(@, done)]

\* A variant of the drawdown scan whose peak stays at the first point.
MaxDrawdownFirstPeak(equity_values) ==
    LET dds == {equity_values[1] - equity_values[k] : k \in 1..Len(equity_values)}
        m == CHOOSE d \in dds : \A e \in dds : d >= e
    IN  [max_dd |-> Max(m, 0),
         max_dd_pct |-> IF equity_values[1] > 0
                        THEN Max((m * 100000) \div equity_values[1], 0) ELSE 0]

\* "for equity in equity_values:" of _calculate_metrics from position k on;
\* a percentage is counted in 1/1000 of a percent.
RECURSIVE DrawdownScan(_, _, _, _, _)
DrawdownScan(equity_values, k, peak, max_dd, max_dd_pct) ==
    IF k > Len(equity_values)
    THEN [max_dd |-> max_dd, max_dd_pct |-> max_dd_pct]
    ELSE LET equity == equity_values[k]
             peak2 == IF equity > peak THEN equity ELSE peak
             dd == peak2 - equity
             dd_pct == IF peak2 > 0 THEN (dd * 100000) \div peak2 ELSE 0
         IN  DrawdownScan(equity_values, k + 1, peak2,
                          Max(max_dd, dd), Max(max_dd_pct, dd_pct))

MaxDrawdown(equity_values) ==
    DrawdownScan(equity_values, 1, equity_values[1], 0, 0)


\* The order in which _calculate_metrics looks at the signal types.
SIGNAL_TYPES == <<"STRONG_BUY", "BUY", "SELL", "STRONG_SELL">>

RECURSIVE SumOf(_)
SumOf(values) == IF values = <<>> THEN 0 ELSE Head(values) + SumOf(Tail(values))
\* np.mean, rounded down to the unit of the values.
Mean(values) == SumOf(values) \div Len(values)
SeqMax(values) ==
    CHOOSE v \in {values[k] : k \in 1..Len(values)} :
        \A k \in 1..Len(values) : v >= values[k]
SeqMin(values) ==
    CHOOSE v \in {values[k] : k \in 1..Len(values)} :
        \A k \in 1..Len(values) : v <= values[k]
Abs(x) == IF x < 0 THEN -x ELSE x
Sign(x) == IF x < 0 THEN -1 ELSE IF x > 0 THEN 1 ELSE 0
Dollars(mills) == mills \div 1000

\* "t.pnl and t.pnl > 0", "t.pnl and t.pnl < 0".
IsWin(t) == t.pnl # None /\ t.pnl[1] > 0
IsLoss(t) == t.pnl # None /\ t.pnl[1] < 0
Pnls(trades) == [k \in 1..Len(trades) |-> trades[k].pnl[1]]

\* The Sharpe ratio is kept as its kind and sign: the literal 0 of fewer than
\* two returns, a finite quotient, or a quotient whose np.std is zero.
ZeroRatio == [kind |-> "zero", sign |-> 0]
SharpeRatio(returns) ==
    IF Len(returns) > 1
    THEN [kind |-> IF \A k \in 1..Len(returns) : returns[k] = returns[1]
                   THEN "zero_std" ELSE "finite",
          sign |-> Sign(SumOf(returns))]
    ELSE ZeroRatio

\* "signal_performance[signal_type] = {...}" for the types that traded.
SignalPerformance(trades) ==
    LET of(st) == SelectSeq(trades, LAMBDA t : t.signal = st)
        traded == {SIGNAL_TYPES[k] : k \in {j \in 1..Len(SIGNAL_TYPES) :
                                               of(SIGNAL_TYPES[j]) # <<>>}}
    IN  [st \in traded |->
            [total_trades |-> Len(of(st)),
             win_rate |-> (Len(SelectSeq(of(st), IsWin)) * 100000) \div Len(of(st)),
             avg_pnl |-> Mean(Pnls(of(st))),
             total_pnl |-> SumOf(Pnls(of(st)))]]

\* "max(signal_performance.items(), key=win_rate)[0]": the first type, in
\* insertion order, of the highest win rate.
BestSignalType(signal_performance) ==
    IF DOMAIN signal_performance = {} THEN "N/A"
    ELSE LET best(k) ==
                 /\ SIGNAL_TYPES[k] \in DOMAIN signal_performance
                 /\ \A st \in DOMAIN signal_performance :
                        signal_performance[SIGNAL_TYPES[k]].win_rate
                            >= signal_performance[st].win_rate
             first == CHOOSE k \in 1..Len(SIGNAL_TYPES) :
                          best(k) /\ \A j \in 1..(k - 1) : ~best(j)
         IN  SIGNAL_TYPES[first]

\* A variant whose result for no trades carries no equity curve.
EmptyResultWithoutCurve(initial_capital, final_capital, equity_curve) ==
    [initial_capital |-> initial_capital, final_capital |-> final_capital,
     total_return_pct |-> 0, total_trades |-> 0, winning_trades |-> 0,
     losing_trades |-> 0, win_rate |-> 0, avg_win |-> 0, avg_loss |-> 0,
     largest_win |-> 0, largest_loss |-> 0, profit_factor |-> 0,
     sharpe_ratio |-> ZeroRatio, max_drawdown |-> 0, max_drawdown_pct |-> 0,
     avg_hold_time_hours |-> 0, trades_per_day |-> 0,
     best_signal_type |-> "N/A", signal_performance |-> <<>>,
     equity_curve |-> <<>>, trades |-> <<>>]
\* "if not trades: return BacktestResult(...)".
EmptyResult(initial_capital, final_capital, equity_curve) ==
    [initial_capital |-> initial_capital, final_capital |-> final_capital,
     total_return_pct |-> 0, total_trades |-> 0, winning_trades |-> 0,
     losing_trades |-> 0, win_rate |-> 0, avg_win |-> 0, avg_loss |-> 0,
     largest_win |-> 0, largest_loss |-> 0, profit_factor |-> 0,
     sharpe_ratio |-> ZeroRatio, max_drawdown |-> 0, max_drawdown_pct |-> 0,
     avg_hold_time_hours |-> 0, trades_per_day |-> 0,
     best_signal_type |-> "N/A", signal_performance |-> <<>>,
     equity_curve |-> equity_curve, trades |-> <<>>]

\* _calculate_metrics.  Money is in 1/1000 dollar, except max_drawdown, which
\* is in whole dollars; percentages are in 1/1000 percent, profit_factor in
\* 1/100, trades_per_day in 1/1000; start_date and end_date are day numbers.
calculate_metrics(start_date, end_date, initial_capital, final_capital, trades, equity_curve) ==
    IF trades = <<>>
    THEN EmptyResult(initial_capital, final_capital, equity_curve)
    ELSE LET winning_trades == SelectSeq(trades, IsWin)
             losing_trades == SelectSeq(trades, IsLoss)
             total_profit == IF winning_trades # <<>>
                             THEN SumOf(Pnls(winning_trades)) ELSE 0
             total_loss == IF losing_trades # <<>>
                           THEN Abs(SumOf(Pnls(losing_trades))) ELSE Money(1)
             with_return == SelectSeq(trades,
                                LAMBDA t : t.pnl_pct # None /\ t.pnl_pct[1] # 0)
             returns == [k \in 1..Len(with_return) |-> with_return[k].pnl_pct[1]]
             dd == MaxDrawdown([k \in 1..Len(equity_curve) |->
                                   Dollars(equity_curve[k].equity)])
             with_hold == SelectSeq(trades,
                              LAMBDA t : t.hold_time_hours # None
                                         /\ t.hold_time_hours[1] # 0)
             hold_times == [k \in 1..Len(with_hold) |->
                               with_hold[k].hold_time_hours[1]]
             days == end_date - start_date
             signal_performance == SignalPerformance(trades)
         IN  [initial_capital |-> initial_capital,
              final_capital |-> final_capital,
              total_return_pct |->
                  (Dollars(final_capital - initial_capital) * 100000)
                      \div Dollars(initial_capital),
              total_trades |-> Len(trades),
              winning_trades |-> Len(winning_trades),
              losing_trades |-> Len(losing_trades),
              win_rate |-> (Len(winning_trades) * 100000) \div Len(trades),
              avg_win |-> IF winning_trades # <<>>
                          THEN Mean(Pnls(winning_trades)) ELSE 0,
              avg_loss |-> IF losing_trades # <<>>
                           THEN Mean(Pnls(losing_trades)) ELSE 0,
              largest_win |-> IF winning_trades # <<>>
                              THEN SeqMax(Pnls(winning_trades)) ELSE 0,
              largest_loss |-> IF losing_trades # <<>>
                               THEN SeqMin(Pnls(losing_trades)) ELSE 0,
              profit_factor |-> IF total_loss > 0
                                THEN (total_profit * 100) \div total_loss ELSE 0,
              sharpe_ratio |-> SharpeRatio(returns),
              max_drawdown |-> dd.max_dd,
              max_drawdown_pct |-> dd.max_dd_pct,
              avg_hold_time_hours |-> IF hold_times # <<>>
                                      THEN Mean(hold_times) ELSE 0,
              trades_per_day |-> IF days > 0
                                 THEN (Len(trades) * 1000) \div days ELSE 0,
              best_signal_type |-> BestSignalType(signal_performance),
              signal_performance |-> signal_performance,
              equity_curve |-> equity_curve,
              trades |-> trades]

\* After the loop: the remaining position is closed, the metrics are
\* calculated and the result returned.
FinishBacktest ==
    /\ run.pc = "loop"
    /\ run.i = run.nbars
    /\ LET r == EndOfPeriodClose(run)
       IN  run' = [r EXCEPT
                      !.pc = "returned",
                      !.result = Some(calculate_metrics(
                                     0, r.nbars - 1, Money(INITIAL_CAPITAL),
                                     r.capital, r.trades, r.equity_curve))]

BTNext ==
    \/ RunBacktest
    \/ BacktestBar
    \/ SignalHangs
    \/ FinishBacktest

(***************************************************************************)
(* The engine's and the service's pure helpers, called on their own.       *)
(***************************************************************************)
Shares(n) == n * 1000
CalcSignals == {"BUY", "STRONG_BUY", "SELL", "STRONG_SELL"}
CalcPrices == {95, 100, 105, 110}
CalcQuantities == {Shares(10), Shares(100)}
CommissionRates == {0, COMMISSION_PER_MILLE}

VARIABLES calc

\* Longest equity curve handed to the drawdown scan, and its values.
MaxCurveLen == 4
EquityValues == {95000, 100000, 105000, 110000}
Curves == UNION {[1..n -> EquityValues] : n \in 1..MaxCurveLen}

\* Bars handed to validate_historical_data: two that pass (one of them with
\* no volume traded), and one for each way a bar can fail.
MaxSeriesLen == 3
PassingBars == {Bar(10, 12, 9, 11), [Bar(11, 11, 11, 11) EXCEPT !.volume = 0]}
FailingBars ==
    {Bar(10, 9, 12, 11), Bar(13, 12, 9, 11), Bar(10, 12, 9, 8),
     Bar(0, 12, 0, 11), Bar(-2, -1, -3, -2),
     [open |-> 10, high |-> 12, low |-> 9, close |-> 11],
     [open |-> 10, high |-> 12, low |-> 9, volume |-> 1]}
CalcBars == PassingBars \cup FailingBars
CalcSeries == UNION {[1..n -> CalcBars] : n \in 0..MaxSeriesLen}
MinBarsValues == 1..MaxSeriesLen

\* get_market_snapshot: the symbols asked for, and for each position of the
\* list what get_price and get_historical_data answer.  An equity series has
\* passed validate_historical_data; a crypto series is what the vendor gave.
MaxSymbols == 2
CalcSymbols == {"AAPL", "BTC/USD"}
is_crypto(symbol) == symbol = "BTC/USD"
OneBarSeries == <<Bar(10, 12, 9, 11)>>
ZeroCloseSeries == <<Bar(10, 12, 0, 0), Bar(11, 11, 11, 11)>>
SnapshotSeries == {<<>>, OneBarSeries, GoodSeries, BadSeries, ZeroCloseSeries}
PriceAnswers == {None} \cup {Some(p) : p \in PriceValues}
HistAnswers(symbol) ==
    IF is_crypto(symbol) THEN SnapshotSeries
    ELSE {h \in SnapshotSeries :
              h = <<>> \/ validate_historical_data(h, 1).outcome = "True"}
SymbolAnswers ==
    UNION {{[symbol |-> sym, price |-> p, hist |-> h] :
                p \in PriceAnswers, h \in HistAnswers(sym)} : sym \in CalcSymbols}
SnapshotRequests == UNION {[1..n -> SymbolAnswers] : n \in 0..MaxSymbols}

\* The body of "for symbol in symbols:" for one symbol: the snapshot after
\* it.  change_pct is in 1/1000 percent, rounded down; the division by a
\* previous close of 0 raises into "except Exception", which logs it.
SnapshotStep(snapshot, a) ==
    IF a.price = None THEN snapshot
    ELSE LET price == a.price[1]
             hist == a.hist
             n == Len(hist)
         IN  IF n >= 2 /\ hist[n - 1].close = 0 THEN snapshot
             ELSE LET entry ==
                          [price |-> price,
                           change_pct |->
                               IF n >= 2
                               THEN ((price - hist[n - 1].close) * 100000)
                                        \div hist[n - 1].close
                               ELSE 0,
                           volume |-> IF hist # <<>> THEN hist[n].volume ELSE 0]
                  IN  [sym \in DOMAIN snapshot \cup {a.symbol} |->
                          IF sym = a.symbol THEN entry ELSE snapshot[sym]]

\* A variant that gives up the batch at the first symbol without a price.
RECURSIVE get_market_snapshot_until_gap(_, _, _)
get_market_snapshot_until_gap(snapshot, requests, k) ==
    IF k > Len(requests) \/ requests[k].price = None THEN snapshot
    ELSE get_market_snapshot_until_gap(SnapshotStep(snapshot, requests[k]),
                                       requests, k + 1)
\* get_market_snapshot from the k-th symbol on.
RECURSIVE get_market_snapshot(_, _, _)
get_market_snapshot(snapshot, requests, k) ==
    IF k > Len(requests) THEN snapshot
    ELSE get_market_snapshot(SnapshotStep(snapshot, requests[k]), requests, k + 1)

\* retry_with_backoff(max_retries) around a call of its own: the largest
\* max_retries tried, and how one invocation of the wrapped call can end.
MaxRetriesArg == 6
RetryArgs == 0..MaxRetriesArg
CallOutcomes == {"ok", "NetworkError", "RateLimitError", "EmptyDataError"}
NoRetry == [max_retries |-> 0, outcomes |-> <<>>, end |-> "", attempts |-> 0, sleeps |-> <<>>]

\* The wrapper's loop from attempt number attempt on, outcomes[k] being how
\* the k-th invocation of the wrapped call ends: how the wrapper ends ("ok"
\* or the error it raises), the invocations made and the sleeps taken.
RECURSIVE RetryLoop(_, _, _, _, _)
RetryLoop(outcomes, max_retries, attempt, delay, sleeps) ==
    LET o == outcomes[attempt + 1]
    IN  IF o = "ok"
        THEN [end |-> "ok", attempts |-> attempt + 1, sleeps |-> sleeps]
        ELSE IF retry_with_backoff(attempt, max_retries, o) = "sleep"
        THEN RetryLoop(outcomes, max_retries, attempt + 1, NextDelay(delay),
                       Append(sleeps, delay))
        ELSE [end |-> o, attempts |-> attempt + 1, sleeps |-> sleeps]

NoCalc ==
    [op |-> "none", retry |-> NoRetry, trade |-> Trade(0, "BUY", 0, 0, 0, 0, 0), price |-> 0,
     commission |-> 0, exit |-> FALSE,
     use_stop_loss |-> TRUE, use_take_profit |-> TRUE,
     curve |-> <<>>, max_dd |-> 0, max_dd_pct |-> 0,
     data |-> <<>>, min_bars |-> 0,
     validation |-> [outcome |-> "", bar |-> -1],
     requests |-> <<>>, snapshot |-> <<>>]

CalcInit == calc = NoCalc

\* The exit branch of the loop body on one open trade: the exit check and,
\* when it says so, the closure at the current price.  Each helper is called
\* once, on arguments of its caller's choice.
CalcClose ==
    /\ calc.op = "none"
    /\ \E signal \in CalcSignals, entry \in CalcPrices, stop \in CalcPrices,
          take \in CalcPrices, price \in CalcPrices, quantity \in CalcQuantities,
          c \in CommissionRates, sl \in BOOLEAN, tp \in BOOLEAN :
        LET trade == Trade(0, signal, entry, quantity, stop, take, MIN_CONFIDENCE)
            x == check_exit_conditions(trade, price, sl, tp)
        IN  calc' = [NoCalc EXCEPT
                        !.op = "close", !.price = price, !.commission = c,
                        !.use_stop_loss = sl, !.use_take_profit = tp,
                        !.exit = x.exit,
                        !.trade = IF x.exit
                                  THEN WithHoldTime(ClosedWith(trade, 1, price, x.reason, c))
                                  ELSE trade]

\* The drawdown scan of _calculate_metrics on one equity curve.
CalcDrawdown ==
    /\ calc.op = "none"
    /\ \E curve \in Curves :
         LET dd == MaxDrawdown(curve)
         IN  calc' = [NoCalc EXCEPT !.op = "drawdown", !.curve = curve,
                                    !.max_dd = dd.max_dd,
                                    !.max_dd_pct = dd.max_dd_pct]

\* validate_historical_data on one series.
CalcValidate ==
    /\ calc.op = "none"
    /\ \E data \in CalcSeries, min_bars \in MinBarsValues :
         calc' = [NoCalc EXCEPT !.op = "validate", !.data = data,
                                !.min_bars = min_bars,
                                !.validation =
                                    validate_historical_data(data, min_bars)]

\* get_market_snapshot on one list of symbols.
CalcSnapshot ==
    /\ calc.op = "none"
    /\ \E requests \in SnapshotRequests :
         calc' = [NoCalc EXCEPT !.op = "snapshot", !.requests = requests,
                                !.snapshot =
                                    get_market_snapshot(<<>>, requests, 1)]

\* A call decorated with retry_with_backoff(max_retries), with the default
\* initial delay.
CalcRetry ==
    /\ calc.op = "none"
    /\ \E max_retries \in RetryArgs :
         \E outcomes \in [1..(max_retries + 1) -> CallOutcomes] :
           LET r == RetryLoop(outcomes, max_retries, 0, INITIAL_RETRY_DELAY, <<>>)
           IN  calc' = [NoCalc EXCEPT
                           !.op = "retry",
                           !.retry = [max_retries |-> max_retries,
                                      outcomes |-> outcomes, end |-> r.end,
                                      attempts |-> r.attempts, sleeps |-> r.sleeps]]

CalcNext ==
    \/ CalcRetry
    \/ CalcClose
    \/ CalcDrawdown
    \/ CalcValidate
    \/ CalcSnapshot

vars == <<now, breaker, cb_op, cb_ret, cb_calls, cb_streak,
          providers, provider_stats, circuit_breakers, fetch, nfetch, workload, session, status_report,
          run, calc>>

Init ==
    /\ now = 0
    /\ CBInit
    /\ ServiceInit
    /\ BTInit
    /\ CalcInit

Next ==
    /\ ServiceNext
    /\ UNCHANGED <<cbvars, run, calc>>

Spec == Init /\ [][Next]_vars

\* Several callers run their fetches concurrently on one service, and may
\* cancel them; the history of the session is kept.
ConcNext ==
    /\ \/ FetchNext(ConcTasks)
       \/ /\ \E t \in ConcTasks : Cancel(t)
          /\ status_report' = NoStatus
          /\ UNCHANGED workload
    /\ session' = RecordedEnds(ConcTasks)

NextConc ==
    /\ ConcNext
    /\ UNCHANGED <<cbvars, run, calc>>

\* Number of fetches started in a run with concurrent callers.
MaxConcFetches == 2
ConcInit ==
    /\ now = 0
    /\ CBInit
    /\ BTInit
    /\ CalcInit
    /\ providers = SmallConfig
    /\ status_report = NoStatus
    /\ provider_stats = [p \in ProviderNames |-> NewStats]
    /\ circuit_breakers =
         [p \in ProviderNames |->
            CircuitBreaker(CIRCUIT_BREAKER_THRESHOLD, CIRCUIT_BREAKER_TIMEOUT)]
    /\ fetch = [t \in ConcTasks |-> IdleFetch]
    /\ nfetch = 0
    /\ workload = [fetches |-> MaxConcFetches, kinds |-> {"price"},
                   errors |-> {"NetworkError", "EmptyDataError"},
                   outcomes |-> OutcomeKinds]
    /\ session = NoHistory

SpecConc == ConcInit /\ [][NextConc]_vars

\* Concurrent callers and status queries on a service whose breaker opens:
\* the vendor answers with a price or with no quote.
ProbeNext ==
    /\ \/ /\ \/ \E t \in ConcTasks : StartStockFetch(t)
             \/ \E t \in ConcTasks : AdapterReturns(t)
             \/ \E t \in ConcTasks : AdapterRaises(t)
             \/ \E t \in ConcTasks : Return(t)
             \/ ServiceTick
          /\ status_report' = NoStatus
          /\ UNCHANGED workload
       \/ GetProviderStatus
    /\ session' = RecordedProbes(ConcTasks)

NextProbe ==
    /\ ProbeNext
    /\ UNCHANGED <<cbvars, run, calc>>

\* Number of fetches in such a run: enough to open the breaker and to have
\* two fetches meet it half-open.
MaxProbeFetches == 7
ProbeInit ==
    /\ now = 0
    /\ CBInit
    /\ BTInit
    /\ CalcInit
    /\ providers = SmallConfig
    /\ status_report = NoStatus
    /\ provider_stats = [p \in ProviderNames |-> NewStats]
    /\ circuit_breakers =
         [p \in ProviderNames |->
            CircuitBreaker(CIRCUIT_BREAKER_THRESHOLD, CIRCUIT_BREAKER_TIMEOUT)]
    /\ fetch = [t \in ConcTasks |-> IdleFetch]
    /\ nfetch = 0
    /\ workload = [fetches |-> MaxProbeFetches, kinds |-> {"price"},
                   errors |-> {"EmptyDataError"}, outcomes |-> OutcomeKinds]
    /\ session = NoHistory

SpecProbe == ProbeInit /\ [][NextProbe]_vars

\* One caller on a service with two providers whose vendors answer with a
\* price or an error at once, all within the timeout of the breakers (the
\* clock does not advance); the history of the ends of the provider blocks is
\* kept.
IsolationNext ==
    /\ \/ \E t \in Tasks : StartStockFetch(t)
       \/ \E t \in Tasks : CryptoFetch(t)
       \/ \E t \in Tasks : AdapterReturns(t)
       \/ \E t \in Tasks : AdapterRaises(t)
       \/ \E t \in Tasks : BackoffDone(t)
       \/ \E t \in Tasks : Return(t)
    /\ status_report' = NoStatus
    /\ UNCHANGED workload
    /\ session' = RecordedEnds(Tasks)

NextIsolation ==
    /\ IsolationNext
    /\ UNCHANGED <<cbvars, run, calc>>

\* Number of fetches in such a run: enough to open a breaker and to fetch
\* again.
MaxIsolationFetches == 6
IsolationInit ==
    /\ now = 0
    /\ CBInit
    /\ BTInit
    /\ CalcInit
    /\ providers = PairConfig
    /\ status_report = NoStatus
    /\ provider_stats = [p \in ProviderNames |-> NewStats]
    /\ circuit_breakers =
         [p \in ProviderNames |->
            CircuitBreaker(CIRCUIT_BREAKER_THRESHOLD, CIRCUIT_BREAKER_TIMEOUT)]
    /\ fetch = [t \in ConcTasks |-> IdleFetch]
    /\ nfetch = 0
    /\ workload = [fetches |-> MaxIsolationFetches, kinds |-> {"price"},
                   errors |-> {"NetworkError", "EmptyDataError"},
                   outcomes |-> {"ok", "exc"}]
    /\ session = NoHistory

SpecIsolation == IsolationInit /\ [][NextIsolation]_vars

\* One caller on a service with one stock provider whose vendor answers,
\* answers with nothing, is rate-limited or does not answer in time: every
\* NetworkError of such a run comes from a timeout.
MaxTimeoutFetches == 3
TimeoutInit ==
    /\ now = 0
    /\ CBInit
    /\ BTInit
    /\ CalcInit
    /\ providers = SmallConfig
    /\ status_report = NoStatus
    /\ provider_stats = [p \in ProviderNames |-> NewStats]
    /\ circuit_breakers =
         [p \in ProviderNames |->
            CircuitBreaker(CIRCUIT_BREAKER_THRESHOLD, CIRCUIT_BREAKER_TIMEOUT)]
    /\ fetch = [t \in ConcTasks |-> IdleFetch]
    /\ nfetch = 0
    /\ workload = [fetches |-> MaxTimeoutFetches, kinds |-> FetchKinds,
                   errors |-> {"RateLimitError", "EmptyDataError"},
                   outcomes |-> OutcomeKinds]
    /\ session = NoHistory

SpecTimeout == TimeoutInit /\ [][Next]_vars

\* The service with one caller, with the history of its session.
NextSession ==
    /\ SessionNext
    /\ UNCHANGED <<cbvars, run, calc>>

SpecSession == Init /\ [][NextSession]_vars

\* The service with one caller that also queries the status of the
\* providers, in the small configuration.
StatusInit ==
    /\ Init
    /\ providers = SmallConfig

NextStatus ==
    /\ StatusNext
    /\ UNCHANGED <<cbvars, run, calc>>

SpecStatus == StatusInit /\ [][NextStatus]_vars

\* A step of the fetch of task t that asyncio takes without its caller: the
\* awaited vendor call answers, raises or is found not to answer, the timer
\* of wait_for fires, a sleep ends, the finished fetch returns.
FetchProgress(t) ==
    /\ \/ AdapterReturns(t)
       \/ AdapterRaises(t)
       \/ AdapterHangs(t)
       \/ TimeoutExpires(t)
       \/ BackoffDone(t)
       \/ Return(t)
    /\ status_report' = NoStatus
    /\ UNCHANGED <<workload, session>>
    /\ UNCHANGED <<cbvars, run, calc>>

\* The service under asyncio's scheduling.
SpecLive == Spec /\ \A t \in Tasks : WF_vars(FetchProgress(t))

CBNext ==
    /\ \/ CBCallFailed
       \/ CBCallSucceeded
       \/ CBCanAttempt
       \/ CBTick
    /\ UNCHANGED <<svars, workload, session, status_report, run, calc>>

SpecCB == Init /\ [][CBNext]_vars

NextBT ==
    /\ BTNext
    /\ UNCHANGED <<now, cbvars, svars, workload, session, status_report, calc>>

SpecBT == Init /\ [][NextBT]_vars

\* The run under asyncio's scheduling: the coroutine goes on whenever it can.
SpecBTLive == SpecBT /\ WF_vars(NextBT)

NextCalc ==
    /\ CalcNext
    /\ UNCHANGED <<now, cbvars, svars, workload, session, status_report, run>>

SpecCalc == Init /\ [][NextCalc]_vars

(***************************************************************************)
(* Circuit breaker claims, checked under SpecCB.                           *)
(***************************************************************************)
\* The step is a call of operation op on the stand-alone breaker.
CBStep(op) == cb_op' = op /\ cb_calls' = cb_calls + 1
Elapsed == now - breaker.last_failure_time

\* C1 -- Circuit breaker lifecycle.  With fewer than threshold call_failed()
\* calls since construction (or since the last call_succeeded()) the breaker
\* is closed and can_attempt() is true; right after the call_failed() that
\* brings the run of failures to threshold or more the breaker is open, and
\* can_attempt() is false while no more than timeout seconds have passed since
\* that failure; a can_attempt() called on the open breaker more than timeout
\* seconds after the last failure returns true and makes the breaker
\* half-open; a call_succeeded() leaves failure_count 0 and the state closed.
C1_StateParts ==
    /\ cb_streak < breaker.threshold =>
         /\ breaker.state = "closed"
         /\ can_attempt(breaker, now).ok
    /\ (cb_op = "call_failed" /\ cb_streak >= breaker.threshold) =>
         /\ breaker.state = "open"
         /\ (Elapsed <= breaker.timeout => ~can_attempt(breaker, now).ok)
    /\ cb_op = "call_succeeded" =>
         /\ breaker.failure_count = 0
         /\ breaker.state = "closed"
C1_StepPart ==
    (CBStep("can_attempt") /\ breaker.state = "open" /\ Elapsed > breaker.timeout)
        => (cb_ret' = TRUE /\ breaker'.state = "half-open")
C1_Lifecycle == [](C1_StateParts) /\ [][C1_StepPart]_vars

\* Exactly threshold failures in a row, the timeout has passed, and the next
\* can_attempt() has returned true and made the breaker half-open.
C1_Witness ==
    /\ cb_op = "can_attempt"
    /\ cb_ret = TRUE
    /\ breaker.state = "half-open"
    /\ cb_streak = breaker.threshold
    /\ cb_calls = breaker.threshold + 1

\* C2 -- In every state reachable by any sequence of call_failed(),
\* call_succeeded(), can_attempt() and clock advances, the breaker being open
\* implies failure_count >= threshold.
C2_OpenImpliesThreshold ==
    breaker.state = "open" => breaker.failure_count >= breaker.threshold

\* The breaker is open again after a failed probe in the half-open state.
C2_Witness ==
    /\ breaker.state = "open"
    /\ breaker.failure_count > breaker.threshold

\* C3 -- The half-open state is entered only from open, and only by a
\* can_attempt() made when now - last_failure_time > timeout, which returns
\* true; while the elapsed time is <= timeout, can_attempt() on an open breaker
\* returns false and leaves it open; the half-open state is left only by
\* call_succeeded(), to closed, or by call_failed(), to open with
\* last_failure_time stamped anew.
C3_Step ==
    /\ (breaker'.state = "half-open" /\ breaker.state # "half-open") =>
         /\ breaker.state = "open"
         /\ CBStep("can_attempt")
         /\ Elapsed > breaker.timeout
         /\ cb_ret' = TRUE
    /\ (CBStep("can_attempt") /\ breaker.state = "open" /\ Elapsed <= breaker.timeout) =>
         /\ cb_ret' = FALSE
         /\ breaker'.state = "open"
    /\ (breaker.state = "half-open" /\ CBStep("call_succeeded")) =>
         breaker'.state = "closed"
    /\ (breaker.state = "half-open" /\ CBStep("call_failed")) =>
         /\ breaker'.state = "open"
         /\ breaker'.last_failure_time = now
    /\ (breaker.state = "half-open" /\ breaker'.state # "half-open") =>
         (CBStep("call_succeeded") \/ CBStep("call_failed"))
C3_HalfOpen == [][C3_Step]_vars

\* A probe failed in the half-open state: the breaker is open again and the
\* failure was stamped at the time of the probe, after the first timeout.
C3_Witness ==
    /\ cb_op = "call_failed"
    /\ breaker.state = "open"
    /\ breaker.failure_count = breaker.threshold + 1
    /\ breaker.last_failure_time = now
    /\ now > breaker.timeout

(***************************************************************************)
(* Data service claims, checked under Spec.                                *)
(***************************************************************************)
InFlight(f) == f.pc \in {"call", "hung", "sleep", "done"}
Names(seq) == {seq[k] : k \in 1..Len(seq)}
\* seq lists some of the elements of order, each once, in order's order.
RECURSIVE SubSeqOf(_, _)
SubSeqOf(seq, order) ==
    IF seq = <<>> THEN TRUE
    ELSE IF order = <<>> THEN FALSE
    ELSE IF Head(seq) = Head(order) THEN SubSeqOf(Tail(seq), Tail(order))
    ELSE SubSeqOf(seq, Tail(order))

\* The priority order of the providers, per kind of fetch and symbol class.
PriorityOrder(kind, crypto) ==
    IF ~crypto /\ kind = "price" THEN <<"alpaca", "polygon", "alpha_vantage", "yfinance">>
    ELSE IF ~crypto THEN <<"alpaca", "yfinance">>
    ELSE IF kind = "price" THEN <<"alpaca", "coinbase", "yfinance">>
    ELSE <<"alpaca", "yfinance">>

\* C4 -- Fallback ordering.  A fetch invokes providers in the fixed priority
\* order (equities: alpaca, polygon, alpha_vantage, yfinance), each at most
\* once; every provider invoked before the last one was refused by its breaker,
\* failed or answered with nothing; and the fetch returns the value returned
\* by the first provider that succeeds, which is the last one it invoked.
C4_FallbackOrder ==
    \A t \in Tasks :
        LET f == fetch[t]
        IN  InFlight(f) =>
              /\ SubSeqOf(f.invoked, PriorityOrder(f.kind, f.crypto))
              /\ \A k \in 1..(Len(f.invoked) - 1) :
                     f.invoked[k] \in f.failed \cup f.empty
              /\ f.winner # "none" =>
                     /\ f.pc = "done"
                     /\ f.winner = f.invoked[Len(f.invoked)]
                     /\ f.winner \notin f.failed \cup f.empty
                     /\ f.res = f.quoted
                     /\ f.kind = "price" => f.res.price \in PriceValues

\* An equity price fetch in which alpaca and polygon used up their retries
\* on retryable errors and alpha_vantage then succeeded.
C4_Witness ==
    \E t \in Tasks :
        LET f == fetch[t]
        IN  /\ f.pc = "done" /\ f.kind = "price" /\ ~f.crypto
            /\ f.invoked = <<"alpaca", "polygon", "alpha_vantage">>
            /\ f.exhausted = {"alpaca", "polygon"}
            /\ f.winner = "alpha_vantage"
            /\ f.res = f.quoted /\ f.res.price \in PriceValues

\* C5 -- Per-fetch accounting.  When a get_price call returns a provider's
\* value, that provider has exactly one success more than before the call,
\* every provider that failed in the call has exactly one error more, and
\* every provider invoked has exactly one request more, whatever the number of
\* retries.
C5_PerFetchAccounting ==
    \A t \in Tasks :
        LET f == fetch[t]
        IN  (f.pc = "done" /\ f.kind = "price" /\ f.winner # "none") =>
              /\ provider_stats[f.winner].success_count
                     = f.stats0[f.winner].success_count + 1
              /\ \A p \in f.failed :
                     provider_stats[p].error_count = f.stats0[p].error_count + 1
              /\ \A p \in Names(f.invoked) :
                     provider_stats[p].request_count = f.stats0[p].request_count + 1

\* C6 -- Non-retryable short-circuit.  The retry wrapper sleeps and attempts
\* again only after a retryable error.  An adapter call whose attempt raises a
\* non-retryable error ends there, with no sleep and no attempt after it; when
\* the first error of the call is non-retryable, the call made exactly one
\* attempt and never slept; the error reaches the data service, which records
\* the failure and goes on to the next provider.
C6_NonRetryable ==
    \A t \in Tasks :
        LET f == fetch[t]
        IN  /\ (f.pc = "sleep" \/ (f.pc \in {"call", "hung"} /\ f.attempt > 0)) =>
                  f.lasterr \in RetryableErrors
            /\ (InFlight(f) /\ f.lastcall.end \in NonRetryableErrors) =>
                  /\ f.lastcall.attempts = Len(f.lastcall.sleeps) + 1
                  /\ f.lastcall.name \in f.failed
                  /\ f.lastcall.first \in NonRetryableErrors =>
                         (f.lastcall.attempts = 1 /\ f.lastcall.sleeps = <<>>)
                  /\ \/ f.pc = "done" /\ f.winner = "none"
                     \/ /\ f.pc \in {"call", "hung"} /\ f.attempt = 0
                        /\ ChainOf(f.kind, f.crypto)[f.idx].name # f.lastcall.name

\* alpaca raised a non-retryable error on its first attempt and the fetch is
\* now calling the next provider.
C6_Witness ==
    \E t \in Tasks :
        LET f == fetch[t]
        IN  /\ f.pc = "call"
            /\ f.lastcall.end = "InvalidSymbolError"
            /\ f.lastcall.name = "alpaca"
            /\ f.lastcall.first = "InvalidSymbolError"
            /\ f.lastcall.attempts = 1 /\ f.lastcall.sleeps = <<>>
            /\ f.invoked = <<"alpaca", "polygon">>

\* C7 -- Retry budget.  An adapter call never makes more than max_retries + 1
\* attempts; one that lets a retryable error out has made exactly
\* max_retries + 1 attempts, with max_retries sleeps between them; one that
\* succeeds has made no attempt after the successful one; and no provider is
\* invoked twice in a fetch.
C7_RetryBudget ==
    \A t \in Tasks :
        LET f == fetch[t]
        IN  InFlight(f) =>
              /\ f.nattempts <= ADAPTER_MAX_RETRIES + 1
              /\ f.lastcall.end \in RetryableErrors =>
                     /\ f.lastcall.attempts = ADAPTER_MAX_RETRIES + 1
                     /\ Len(f.lastcall.sleeps) = ADAPTER_MAX_RETRIES
                     /\ f.lastcall.name \in f.failed
              /\ (f.lastcall.end = "ok" /\ f.winner # "none") =>
                     /\ f.pc = "done"
                     /\ f.nattempts = f.lastcall.attempts
                     /\ f.lastcall.attempts = Len(f.lastcall.sleeps) + 1
              /\ \A j, k \in 1..Len(f.invoked) : f.invoked[j] = f.invoked[k] => j = k

\* A provider used up its max_retries + 1 attempts on retryable errors.
C7_Witness ==
    \E t \in Tasks :
        LET f == fetch[t]
        IN  /\ InFlight(f)
            /\ f.lastcall.end = "RateLimitError"
            /\ f.lastcall.attempts = ADAPTER_MAX_RETRIES + 1
            /\ f.lastcall.name \in f.failed

\* A provider succeeded on its last permitted attempt.
C7_WitnessSuccess ==
    \E t \in Tasks :
        LET f == fetch[t]
        IN  /\ f.pc = "done" /\ f.winner # "none"
            /\ f.lastcall.attempts = ADAPTER_MAX_RETRIES + 1

\* C8 -- Breaker skip.  In every fetch, for every symbol class, a provider
\* whose breaker refused an attempt when its block was reached is not
\* invoked, and no request, success or failure is recorded against it.
C8_BreakerSkip ==
    \A t \in Tasks :
        LET f == fetch[t]
        IN  InFlight(f) =>
              \A p \in f.forbidden :
                  /\ p \notin Names(f.invoked)
                  /\ provider_stats[p] = f.stats0[p]

\* The same, for fetches on equity symbols only.
C8_BreakerSkipEquity ==
    \A t \in Tasks :
        LET f == fetch[t]
        IN  (InFlight(f) /\ ~f.crypto) =>
              \A p \in f.forbidden :
                  /\ p \notin Names(f.invoked)
                  /\ provider_stats[p] = f.stats0[p]

\* An equity fetch passed over alpaca, whose breaker was open.
C8_WitnessEquity ==
    \E t \in Tasks :
        LET f == fetch[t]
        IN  /\ f.pc = "done" /\ ~f.crypto
            /\ "alpaca" \in f.forbidden
            /\ circuit_breakers["alpaca"].state = "open"

\* C9 -- Exhaustion and containment.  No fetch raises to its caller, whatever
\* the providers raise; a fetch in which no provider succeeded returns None
\* (get_price) or [] (get_historical_data).
C9_Containment ==
    \A t \in Tasks :
        LET f == fetch[t]
        IN  f.pc = "done" =>
              /\ ~f.raised
              /\ f.winner = "none" => f.res = NoData

\* An equity price fetch in which all four providers failed, the last with an
\* exception of no known category, and the fetch returned None.
C9_Witness ==
    \E t \in Tasks :
        LET f == fetch[t]
        IN  /\ f.pc = "done" /\ ~f.crypto /\ f.kind = "price"
            /\ f.failed = {"alpaca", "polygon", "alpha_vantage", "yfinance"}
            /\ f.lastcall.end = "DataProviderError"
            /\ f.res = NoData /\ ~f.raised

(***************************************************************************)
(* Backtest claims, checked under SpecBT.                                  *)
(***************************************************************************)
OpenTrades == {k \in 1..Len(run.ledger) : run.ledger[k].status = "open"}

\* C10 -- At most one position is open at any point of a backtest run: of
\* the trades the run has created, never two have status "open" together;
\* the one that has is the trade the open-position slot refers to; and a
\* trade is created only on a bar on which the slot is empty once the bar's
\* exit check is done.
C10_StateParts ==
    /\ Cardinality(OpenTrades) <= 1
    /\ run.open_position = None => OpenTrades = {}
    /\ run.open_position # None =>
           /\ OpenTrades \subseteq {Len(run.ledger)}
           /\ run.ledger[Len(run.ledger)] = run.open_position[1]
           /\ run.pc = "loop" => run.open_position[1].status = "open"
C10_StepPart ==
    Len(run'.ledger) > Len(run.ledger) =>
        /\ Len(run'.ledger) = Len(run.ledger) + 1
        /\ ExitBlock(run).open_position = None
        /\ run.i % ENTRY_CADENCE = 0
C10_OneOpenPosition == [](C10_StateParts) /\ [][C10_StepPart]_vars

\* A second trade was opened in a run, on the bar that closed the first.
C10_Witness ==
    /\ Len(run.ledger) = 2
    /\ run.open_position # None
    /\ run.ledger[1].status \in {"win", "stopped"}
    /\ run.ledger[1].exit_time = Some(run.ledger[2].entry_time)

IsClosed(trade) ==
    /\ trade.exit_time # None
    /\ trade.exit_price # None
    /\ trade.pnl # None
    /\ trade.status # "open"

\* C11 -- Every trade opened during a run is closed exactly once and never
\* reopened: while the run lasts the trade list holds, once each and in the
\* order of their creation, the trades created so far except the one still
\* open; a closed trade never changes again; and the trade list of a run that
\* has returned holds every trade the run created, exactly once, each with an
\* exit time, an exit price, a P&L and a status other than "open".
C11_StateParts ==
    /\ Len(run.ledger) - Len(run.trades) \in {0, 1}
    /\ \A k \in 1..Len(run.trades) :
           run.trades[k] = run.ledger[k] /\ IsClosed(run.trades[k])
    /\ run.pc = "returned" =>
           /\ run.trades = run.ledger
           /\ \A k \in 1..Len(run.ledger) : IsClosed(run.ledger[k])
C11_StepPart ==
    \A k \in 1..Len(run.ledger) :
        run.ledger[k].status # "open" =>
            /\ Len(run'.ledger) >= k /\ run'.ledger[k] = run.ledger[k]
            /\ Len(run'.trades) >= k /\ run'.trades[k] = run.trades[k]
C11_ClosedExactlyOnce == [](C11_StateParts) /\ [][C11_StepPart]_vars

\* A run returned two trades, the first closed by an exit check and the
\* second by the end-of-period closure.
C11_Witness ==
    /\ run.pc = "returned"
    /\ Len(run.trades) = 2
    /\ run.trades[1].status \in {"win", "stopped"}
    /\ run.trades[2].status = "end_of_period"

Last(seq) == seq[Len(seq)]

\* C12 -- The equity curve holds one point for the start and one per closed
\* trade: a run that has returned has len(equity_curve) = 1 + len(trades),
\* whichever way each trade was closed.
C12_EquityCurveLength ==
    run.pc = "returned" => Len(run.equity_curve) = 1 + Len(run.trades)

\* The same, while the loop runs and for runs whose last trade was closed by
\* an exit check.
C12_EquityCurveLengthExits ==
    (run.pc = "loop"
     \/ (run.pc = "returned" /\ run.trades # <<>>
         /\ Last(run.trades).status # "end_of_period")) =>
        Len(run.equity_curve) = 1 + Len(run.trades)

\* C13 -- End-of-period forced close: a position still open after the last
\* bar is closed at the final bar's close price with status "end_of_period",
\* its P&L follows the rule of a normal exit, capital is updated by it, and
\* the last point of the equity curve equals the capital after the closure.
C13_EndOfPeriodClose ==
    (run.pc = "returned" /\ run.trades # <<>>
     /\ Last(run.trades).status = "end_of_period") =>
        LET trade == Last(run.trades)
        IN  /\ trade.exit_price = Some(Close(run.path, run.nbars - 1))
            /\ trade.exit_time = Some(run.nbars - 1)
            /\ trade.pnl = Some(Pnl(trade, Close(run.path, run.nbars - 1)))
            /\ Last(run.equity_curve).equity = run.capital

\* The same without the equity point: price, status, P&L and capital.
C13_EndOfPeriodCloseNoPoint ==
    (run.pc = "returned" /\ run.trades # <<>>
     /\ Last(run.trades).status = "end_of_period") =>
        LET trade == Last(run.trades)
        IN  /\ trade.exit_price = Some(Close(run.path, run.nbars - 1))
            /\ trade.exit_time = Some(run.nbars - 1)
            /\ trade.pnl = Some(Pnl(trade, Close(run.path, run.nbars - 1)))
            /\ run.capital = Last(run.equity_curve).equity + trade.pnl[1]

(***************************************************************************)
(* Claims about the pure helpers, checked under SpecCalc.                  *)
(***************************************************************************)
\* C14 -- Trade P&L: on every close the net P&L is (exit - entry) * quantity
\* for a long (BUY / STRONG_BUY) and (entry - exit) * quantity for a short,
\* less commission_pct * entry * quantity and commission_pct * exit *
\* quantity; a long entered at 100 with quantity 10 and closed at 110 with a
\* commission of 0.1% nets 97.9, and a short entered at 100 with stop-loss 105
\* and quantity 10, closed at 105 with no commission, nets -50 with status
\* "stopped".
C14_TradePnl ==
    (calc.op = "close" /\ calc.exit) =>
        LET t == calc.trade
            e == t.entry_price
            x == t.exit_price[1]
            q == t.quantity
            fee == (e * q * calc.commission) \div 1000
                   + (x * q * calc.commission) \div 1000
        IN  /\ x = calc.price
            /\ t.signal \in {"BUY", "STRONG_BUY"} => t.pnl[1] = (x - e) * q - fee
            /\ t.signal \in {"SELL", "STRONG_SELL"} => t.pnl[1] = (e - x) * q - fee
            /\ (t.signal = "BUY" /\ e = 100 /\ x = 110 /\ q = Shares(10)
                /\ calc.commission = 1) => t.pnl[1] = 97900
            /\ (t.signal = "SELL" /\ e = 100 /\ x = 105 /\ q = Shares(10)
                /\ t.stop_loss = 105 /\ calc.commission = 0 /\ t.status = "stopped")
                   => t.pnl[1] = -50000

\* The first example of the claim: the long closed at its take-profit.
C14_Witness ==
    /\ calc.op = "close" /\ calc.exit
    /\ calc.trade.signal = "BUY" /\ calc.trade.entry_price = 100
    /\ calc.trade.exit_price = Some(110) /\ calc.trade.quantity = Shares(10)
    /\ calc.commission = 1 /\ calc.trade.status = "win"
    /\ calc.trade.pnl = Some(97900)

\* The second example: the short closed at its stop-loss.
C14_WitnessShort ==
    /\ calc.op = "close" /\ calc.exit
    /\ calc.trade.signal = "SELL" /\ calc.trade.entry_price = 100
    /\ calc.trade.stop_loss = 105 /\ calc.trade.exit_price = Some(105)
    /\ calc.trade.quantity = Shares(10) /\ calc.commission = 0
    /\ calc.trade.status = "stopped" /\ calc.trade.pnl = Some(-50000)

SetMax(S) == CHOOSE x \in S : \A y \in S : x >= y
RunningPeak(curve, k) == SetMax({curve[j] : j \in 1..k})
DrawdownAt(curve, k) == RunningPeak(curve, k) - curve[k]

\* C15 -- Maximum drawdown: max_drawdown is the largest (running peak -
\* equity) over the points of the equity curve, taken in order, and
\* max_drawdown_pct the largest (running peak - equity) / running peak * 100;
\* the curve [100000, 110000, 95000, 105000] gives 15000 and 13.64%, and a
\* curve that never falls below its running peak gives 0 for both.
C15_MaxDrawdown ==
    calc.op = "drawdown" =>
        LET curve == calc.curve
            ks == 1..Len(curve)
        IN  /\ calc.max_dd = SetMax({DrawdownAt(curve, k) : k \in ks})
            /\ calc.max_dd_pct =
                   SetMax({(DrawdownAt(curve, k) * 100000) \div RunningPeak(curve, k)
                           : k \in ks})
            /\ curve = <<100000, 110000, 95000, 105000>> =>
                   /\ calc.max_dd = 15000
                   /\ (calc.max_dd_pct + 5) \div 10 = 1364
            /\ (\A k \in ks : curve[k] = RunningPeak(curve, k)) =>
                   (calc.max_dd = 0 /\ calc.max_dd_pct = 0)

\* The curve of the claim's example, with its drawdown of 15000.
C15_Witness ==
    /\ calc.op = "drawdown"
    /\ calc.curve = <<100000, 110000, 95000, 105000>>
    /\ calc.max_dd = 15000

\* A curve of several points that never falls below its running peak.
C15_WitnessNoDrawdown ==
    /\ calc.op = "drawdown"
    /\ calc.curve = <<95000, 100000, 100000, 110000>>
    /\ calc.max_dd = 0 /\ calc.max_dd_pct = 0
(***************************************************************************)
(* Claims about the result of a run, checked under SpecBT.                 *)
(***************************************************************************)
StartPoint == [date |-> 0, equity |-> Money(INITIAL_CAPITAL)]

\* C16: a run over enough bars in which no signal qualified returns a result
\* with no trades, a final capital equal to the initial capital, an equity
\* curve holding the start point alone, and every rate and ratio zero.
C16_EmptyTradeResult ==
    (run.pc = "returned" /\ run.nsignals = 0) =>
        /\ run.result # None
        /\ LET result == run.result[1]
           IN  /\ result.total_trades = 0
               /\ result.trades = <<>>
               /\ result.initial_capital = Money(INITIAL_CAPITAL)
               /\ result.final_capital = result.initial_capital
               /\ result.equity_curve = <<StartPoint>>
               /\ result.winning_trades = 0 /\ result.losing_trades = 0
               /\ result.total_return_pct = 0 /\ result.win_rate = 0
               /\ result.avg_win = 0 /\ result.avg_loss = 0
               /\ result.largest_win = 0 /\ result.largest_loss = 0
               /\ result.profit_factor = 0
               /\ result.sharpe_ratio = ZeroRatio
               /\ result.max_drawdown = 0 /\ result.max_drawdown_pct = 0
               /\ result.avg_hold_time_hours = 0 /\ result.trades_per_day = 0

\* A run over 101 bars has returned without a qualifying signal.
C16_Witness ==
    /\ run.pc = "returned" /\ run.nsignals = 0 /\ run.nbars = MaxBars
    /\ run.result # None /\ run.result[1].total_trades = 0

\* A run that traded returns a result that counts its trades.
C16_WitnessTraded ==
    /\ run.pc = "returned" /\ run.result # None
    /\ run.result[1].total_trades = 2 /\ run.result[1].winning_trades = 1
(***************************************************************************)
(* Claims about validate_historical_data, checked under SpecCalc.          *)
(***************************************************************************)
OHLCHolds(bar) ==
    /\ bar.low <= bar.open /\ bar.open <= bar.high
    /\ bar.low <= bar.close /\ bar.close <= bar.high
AllPositive(bar) == bar.open > 0 /\ bar.high > 0 /\ bar.low > 0 /\ bar.close > 0
Malformed(bar) ==
    \/ \E f \in {"open", "high", "low", "close", "volume"} : f \notin DOMAIN bar
    \/ ~OHLCHolds(bar)
    \/ ~AllPositive(bar)

\* C17: validate_historical_data raises EmptyDataError for an empty series
\* and for one shorter than min_bars; for a series that is long enough it
\* raises DataValidationError when any one bar lacks an OHLCV field, breaks
\* low <= open <= high or low <= close <= high, or has a non-positive price,
\* whatever the other bars are; it returns True only when every bar passes.
C17_AllOrNothing ==
    calc.op = "validate" =>
        LET n == Len(calc.data)
            short == n = 0 \/ n < calc.min_bars
            bad == {k \in 1..n : Malformed(calc.data[k])}
        IN  /\ short => calc.validation.outcome = "EmptyDataError"
            /\ (~short /\ bad # {}) =>
                   /\ calc.validation.outcome = "DataValidationError"
                   /\ calc.validation.bar + 1 \in bad
                   /\ \A k \in bad : calc.validation.bar + 1 <= k
            /\ calc.validation.outcome = "True" <=> (~short /\ bad = {})

\* A series of three bars whose middle bar alone has high < low is rejected.
C17_Witness ==
    /\ calc.op = "validate" /\ Len(calc.data) = MaxSeriesLen
    /\ calc.data[2].high < calc.data[2].low
    /\ ~Malformed(calc.data[1]) /\ ~Malformed(calc.data[3])
    /\ calc.validation = [outcome |-> "DataValidationError", bar |-> 1]

\* A series of three passing bars is accepted.
C17_WitnessAccepted ==
    /\ calc.op = "validate" /\ Len(calc.data) = MaxSeriesLen
    /\ calc.validation.outcome = "True"

\* A series shorter than min_bars is rejected as empty data.
C17_WitnessShort ==
    /\ calc.op = "validate" /\ Len(calc.data) = 1 /\ calc.min_bars = 2
    /\ calc.validation.outcome = "EmptyDataError"
(***************************************************************************)
(* Claims about the series get_historical_data returns, checked under Spec.*)
(***************************************************************************)
WellFormedSeries(bars) ==
    \A k \in 1..Len(bars) : OHLCHolds(bars[k]) /\ AllPositive(bars[k])

\* C18: every non-empty series get_historical_data returns, for an equity or
\* a crypto symbol and from any provider, has bars that all satisfy
\* low <= open <= high, low <= close <= high and positive prices.
C18_ReturnedSeriesValidated ==
    \A t \in Tasks :
        LET f == fetch[t]
        IN  (f.pc = "done" /\ f.kind = "hist" /\ f.res.bars # <<>>) =>
                WellFormedSeries(f.res.bars)

\* The same for equity symbols only, where moreover the provider whose
\* series is returned has no failure recorded in this fetch.
C18_ReturnedSeriesValidatedEquity ==
    \A t \in Tasks :
        LET f == fetch[t]
        IN  (f.pc = "done" /\ f.kind = "hist" /\ ~f.crypto /\ f.res.bars # <<>>) =>
                /\ WellFormedSeries(f.res.bars)
                /\ f.winner \notin f.failed

\* An equity fetch returned the second provider's series after the first
\* provider's series failed validation.
C18_WitnessEquity ==
    \E t \in Tasks :
        LET f == fetch[t]
        IN  /\ f.pc = "done" /\ f.kind = "hist" /\ ~f.crypto
            /\ f.res.bars = GoodSeries
            /\ f.winner = "yfinance" /\ f.failed = {"alpaca"}
            /\ f.lastcall.attempts = 1
(***************************************************************************)
(* Claims about calls that never return, checked under SpecLive.           *)
(***************************************************************************)
\* C19: in every fetch, for an equity or a crypto symbol, a provider call
\* that does not answer is given up: the fetch goes on and returns.
C19_HungCallBounded ==
    \A t \in Tasks : (fetch[t].pc = "hung") ~> (fetch[t].pc = "done")

\* The same for fetches on equity symbols only.
C19_HungCallBoundedEquity ==
    \A t \in Tasks :
        (fetch[t].pc = "hung" /\ ~fetch[t].crypto) ~> (fetch[t].pc = "done")

\* The same for the signal request of a backtest, under SpecBTLive: a run
\* whose signal call does not answer goes on and returns its result.
C19_HungSignalBounded == (run.pc = "hung") ~> (run.pc = "returned")

\* An equity fetch is done after three attempts on its first provider, the
\* last of which ended in the NetworkError of a timeout.
C19_WitnessEquity ==
    \E t \in Tasks :
        LET f == fetch[t]
        IN  /\ f.pc = "done" /\ ~f.crypto /\ f.failed # {}
            /\ f.lasterr = "NetworkError" /\ f.nattempts >= ADAPTER_MAX_RETRIES + 1
(***************************************************************************)
(* Claims about the outcomes of a run, checked under SpecBT.               *)
(***************************************************************************)
\* C20: a run ends in one of two ways, a complete result or the error for
\* insufficient data.  With a fetched series that is empty or shorter than
\* 100 bars it ends with the error, and at that point no bar was simulated,
\* no trade created and no metric calculated; with 100 bars or more it never
\* ends with the error, and the result it returns covers every bar and
\* carries the trades, the equity curve and the final capital of the run.
C20_TwoOutcomes ==
    /\ run.pc \in {"idle", "loop", "hung", "returned", "ValueError"}
    /\ run.pc # "idle" =>
           (run.pc = "ValueError" <=> (run.nbars = 0 \/ run.nbars < 100))
    /\ run.pc = "ValueError" =>
           /\ run.i = 0 /\ run.nsignals = 0
           /\ run.trades = <<>> /\ run.ledger = <<>> /\ run.open_position = None
           /\ run.equity_curve = <<>>
           /\ run.result = None
    /\ run.pc = "returned" <=> run.result # None
    /\ run.pc = "returned" =>
           /\ run.nbars >= 100 /\ run.i = run.nbars
           /\ run.result[1].total_trades = Len(run.trades)
           /\ run.result[1].trades = run.trades
           /\ run.result[1].equity_curve = run.equity_curve
           /\ run.result[1].initial_capital = Money(INITIAL_CAPITAL)
           /\ run.result[1].final_capital = run.capital

\* A run over 99 bars has ended with the error.
C20_Witness ==
    /\ run.pc = "ValueError" /\ run.nbars = MIN_BARS - 1
    /\ run.trades = <<>> /\ run.result = None

\* A run over 100 bars has returned a result with a trade.
C20_WitnessReturned ==
    /\ run.pc = "returned" /\ run.nbars = MIN_BARS
    /\ run.result # None /\ run.result[1].total_trades = 1

\* A run without data has ended with the error.
C20_WitnessEmpty == run.pc = "ValueError" /\ run.nbars = 0
(***************************************************************************)
(* Claims about a signal request that raises, checked under SpecBT.        *)
(***************************************************************************)
\* C21: an iteration of the loop whose signal request raises opens no
\* position and leaves capital, trade list and equity curve as the exit
\* check of that iteration left them; the run goes on with the next bar, and
\* a run in which a request raised still returns its result.
C21_StepPart ==
    (run.pc = "loop" /\ run'.nraised = run.nraised + 1) =>
        LET r == ExitBlock(run)
        IN  /\ run'.pc = "loop" /\ run'.i = run.i + 1
            /\ run'.open_position = None
            /\ run'.ledger = r.ledger /\ run'.nsignals = run.nsignals
            /\ run'.capital = r.capital
            /\ run'.trades = r.trades
            /\ run'.equity_curve = r.equity_curve
C21_StateParts ==
    /\ run.pc \in {"idle", "loop", "hung", "returned", "ValueError"}
    /\ (run.pc = "returned" /\ run.nraised > 0) => run.result # None
C21_RaiseIsNoSignal == [](C21_StateParts) /\ [][C21_StepPart]_vars

\* A run in which a signal request raised and no signal qualified has
\* returned the result of a run without trades.
C21_Witness ==
    /\ run.pc = "returned" /\ run.nraised > 0 /\ run.nsignals = 0
    /\ run.result # None /\ run.result[1].total_trades = 0
    /\ run.capital = Money(INITIAL_CAPITAL)

\* A run in which a request raised has traded on a later bar.
C21_WitnessTradedLater ==
    /\ run.pc = "returned" /\ run.nraised > 0
    /\ run.result # None /\ run.result[1].total_trades > 0
(***************************************************************************)
(* Claims about get_market_snapshot, checked under SpecCalc.               *)
(***************************************************************************)
Priced(requests) ==
    {requests[k].symbol : k \in {j \in 1..Len(requests) : requests[j].price # None}}
\* The last request for sym that came with a price.
LastPriced(requests, sym) ==
    LET k == CHOOSE j \in 1..Len(requests) :
                 /\ requests[j].symbol = sym /\ requests[j].price # None
                 /\ \A h \in (j + 1)..Len(requests) :
                        ~(requests[h].symbol = sym /\ requests[h].price # None)
    IN  requests[k]
ExpectedChangePct(a) ==
    LET n == Len(a.hist)
    IN  IF n >= 2
        THEN ((a.price[1] - a.hist[n - 1].close) * 100000) \div a.hist[n - 1].close
        ELSE 0

\* C22: the keys of the snapshot are the requested symbols for which
\* get_price gave a price, whatever happens with the other symbols, and each
\* entry carries that price and its change against the previous close, or 0
\* with fewer than two bars.
C22_SnapshotKeys ==
    calc.op = "snapshot" =>
        /\ DOMAIN calc.snapshot = Priced(calc.requests)
        /\ \A sym \in DOMAIN calc.snapshot :
               LET a == LastPriced(calc.requests, sym)
               IN  /\ calc.snapshot[sym].price = a.price[1]
                   /\ calc.snapshot[sym].change_pct = ExpectedChangePct(a)

\* The same when no series has a previous close of 0.
C22_SnapshotKeysPositiveCloses ==
    (/\ calc.op = "snapshot"
     /\ \A k \in 1..Len(calc.requests) :
            LET h == calc.requests[k].hist
            IN  Len(h) >= 2 => h[Len(h) - 1].close > 0) =>
        /\ DOMAIN calc.snapshot = Priced(calc.requests)
        /\ \A sym \in DOMAIN calc.snapshot :
               LET a == LastPriced(calc.requests, sym)
               IN  /\ calc.snapshot[sym].price = a.price[1]
                   /\ calc.snapshot[sym].change_pct = ExpectedChangePct(a)

\* A symbol without a price is left out and the symbol after it is kept,
\* with the change of 81.818% against the previous close of 11.
C22_WitnessOmitted ==
    /\ calc.op = "snapshot" /\ Len(calc.requests) = 2
    /\ calc.requests[1].price = None
    /\ DOMAIN calc.snapshot = {calc.requests[2].symbol}
    /\ calc.requests[2].symbol # calc.requests[1].symbol
    /\ calc.requests[2].hist = GoodSeries /\ calc.requests[2].price = Some(20)
    /\ calc.snapshot[calc.requests[2].symbol].change_pct = 81818

\* ---------------------------------------------------------------------
\* Claims about get_provider_status, checked under SpecStatus
\* ---------------------------------------------------------------------

\* success_count / request_count in 1/1000, 0 without requests.
SuccessRate(stats) ==
    IF stats.request_count > 0
    THEN (stats.success_count * 1000) \div stats.request_count
    ELSE 0

\* The report on one provider says of the breaker what one state of the
\* breaker allows.
SameBreakerState(report) ==
    /\ report.circuit_breaker_state = "open" => ~report.can_attempt
    /\ report.can_attempt => report.circuit_breaker_state \in {"closed", "half-open"}

\* C23: in every report of get_provider_status the breaker state and
\* can_attempt of a provider describe the same state of its breaker (a
\* provider reported "open" has can_attempt false, one with can_attempt true
\* is reported "closed" or "half-open"), and success_rate is success_count
\* divided by request_count, 0 when request_count is 0.
C23_StatusConsistent ==
    status_report # NoStatus =>
        \A p \in ProviderNames :
            /\ SameBreakerState(status_report[p])
            /\ status_report[p].success_rate = SuccessRate(provider_stats[p])

\* C23, for the providers whose breaker the query left in the state it
\* found it in, and the success rate of every provider.
C23_StatusConsistentUnlessFlipped ==
    status_report # NoStatus =>
        \A p \in ProviderNames :
            /\ status_report[p].circuit_breaker_state = circuit_breakers[p].state
                   => SameBreakerState(status_report[p])
            /\ status_report[p].success_rate = SuccessRate(provider_stats[p])
            /\ status_report[p].request_count = provider_stats[p].request_count
            /\ status_report[p].success_count = provider_stats[p].success_count

\* A report on a provider with an open breaker that cannot be attempted, on
\* one with successes and errors, and one made when the timeout of an open
\* breaker had elapsed.
C23_WitnessOpen ==
    /\ status_report # NoStatus
    /\ status_report["alpaca"].circuit_breaker_state = "open"
    /\ ~status_report["alpaca"].can_attempt
    /\ status_report["alpaca"].success_rate = 0
    /\ status_report["alpaca"].request_count >= CIRCUIT_BREAKER_THRESHOLD

C23_WitnessRate ==
    /\ status_report # NoStatus
    /\ status_report["alpaca"].success_rate = 500
    /\ status_report["alpaca"].can_attempt
    /\ status_report["alpaca"].circuit_breaker_state = "closed"

C23_WitnessFlipped ==
    /\ status_report # NoStatus
    /\ status_report["alpaca"].circuit_breaker_state = "open"
    /\ status_report["alpaca"].can_attempt
    /\ circuit_breakers["alpaca"].state = "half-open"


\* ---------------------------------------------------------------------
\* Claims about the session of a provider, checked under SpecSession
\* ---------------------------------------------------------------------

\* C24: after a provider has raised an AuthenticationError no later
\* get_price or get_historical_data call invokes the adapter of that
\* provider, whatever time has passed.
C24_AuthSuppressed ==
    [][\A t \in Tasks : NewlyInvoked(t) \cap session.auth_failed = {}]_vars

\* Within the call in which the provider raised AuthenticationError its
\* adapter is not invoked again (no attempt follows the error), and the
\* failure is recorded on the provider.
C24_AuthNotRetried ==
    \A t \in Tasks :
        LET f == fetch[t]
        IN  (f.pc # "idle" /\ f.lastcall.end = "AuthenticationError") =>
                /\ f.lastcall.attempts = Len(f.lastcall.sleeps) + 1
                /\ f.lastcall.name \in f.failed
                /\ f.lastcall.name \in session.auth_failed
                /\ provider_stats[f.lastcall.name].error_count >= 1
                /\ circuit_breakers[f.lastcall.name].failure_count >= 1

\* A later fetch has invoked a provider that raised AuthenticationError in
\* an earlier fetch, after the clock advanced.
C24_WitnessInvokedAgain ==
    /\ "alpaca" \in session.auth_failed
    /\ now > 0
    /\ \E t \in Tasks :
          /\ fetch[t].pc = "call"
          /\ fetch[t].invoked = <<"alpaca">>
          /\ fetch[t].lastcall = NoCall


\* C25: a provider whose failures were all EmptyDataErrors, however many
\* fetches in a row it answered with one, does not have its breaker opened
\* by them and can be attempted by the next fetch.
C25_EmptyDataKeepsBreakerClosed ==
    \A p \in ProviderNames \ session.failed_otherwise :
        /\ circuit_breakers[p].state # "open"
        /\ can_attempt(circuit_breakers[p], now).ok

\* C25, for fewer EmptyDataErrors in a row than the threshold of the
\* breaker; each of them is counted as a failure of the provider.
C25_EmptyDataBelowThreshold ==
    \A p \in ProviderNames \ session.failed_otherwise :
        /\ circuit_breakers[p].failure_count < CIRCUIT_BREAKER_THRESHOLD =>
              /\ circuit_breakers[p].state = "closed"
              /\ can_attempt(circuit_breakers[p], now).ok
        /\ circuit_breakers[p].failure_count >= CIRCUIT_BREAKER_THRESHOLD =>
              /\ provider_stats[p].error_count >= CIRCUIT_BREAKER_THRESHOLD
              /\ circuit_breakers[p].state \in {"open", "half-open"}

\* The provider answered four fetches in a row with EmptyDataError and is
\* attempted by the fifth; it answered five and its breaker is open.
C25_WitnessFour ==
    /\ "alpaca" \notin session.failed_otherwise
    /\ provider_stats["alpaca"].error_count = CIRCUIT_BREAKER_THRESHOLD - 1
    /\ provider_stats["alpaca"].success_count = 0
    /\ \E t \in Tasks : fetch[t].pc = "call" /\ fetch[t].invoked = <<"alpaca">>

C25_WitnessOpened ==
    /\ "alpaca" \notin session.failed_otherwise
    /\ provider_stats["alpaca"].error_count = CIRCUIT_BREAKER_THRESHOLD
    /\ circuit_breakers["alpaca"].state = "open"
    /\ ~can_attempt(circuit_breakers["alpaca"], now).ok


\* ---------------------------------------------------------------------
\* Claims about concurrent callers, checked under SpecConc
\* ---------------------------------------------------------------------

\* The part of provider_stats and of the breaker that records how the
\* attempts on a provider ended.
Outcomes(p) ==
    [success_count |-> provider_stats[p].success_count,
     error_count |-> provider_stats[p].error_count,
     last_success |-> provider_stats[p].last_success,
     last_error |-> provider_stats[p].last_error,
     failure_count |-> circuit_breakers[p].failure_count,
     state |-> circuit_breakers[p].state]

\* The fetch of t is inside an adapter call (awaiting the vendor or a
\* backoff sleep) of the provider block at position idx.
Attempting(f) == f.pc \in {"call", "hung", "sleep"} /\ ~f.crypto

\* C26: a fetch cancelled while a provider call is in flight records that
\* attempt neither as a success nor as a failure.  No step of the attempt,
\* from the first await of the provider block to the cancellation, changes
\* success_count, error_count, last_success, last_error of any provider or
\* the failure_count and state of any breaker.
C26_StepPart ==
    \A t \in ConcTasks :
        (/\ Attempting(fetch[t])
         /\ fetch'[t] # fetch[t]
         /\ \/ fetch'[t].pc = "cancelled"
            \/ Attempting(fetch'[t]) /\ fetch'[t].idx = fetch[t].idx)
        => /\ \A p \in ProviderNames : Outcomes(p)' = Outcomes(p)
           /\ fetch'[t].failed = fetch[t].failed
           /\ fetch'[t].winner = fetch[t].winner

C26_StateParts ==
    \A t \in ConcTasks :
        fetch[t].pc = "cancelled" =>
            /\ fetch[t].winner = "none"
            /\ ChainOf(fetch[t].kind, FALSE)[fetch[t].idx].name \notin fetch[t].failed
            /\ fetch[t].raised

C26_CancellationSafe == [](C26_StateParts) /\ [][C26_StepPart]_vars

\* A fetch was cancelled during its first attempt on alpaca, which had been
\* counted as a request and is counted neither as a success nor as an
\* error; and one cancelled in a backoff sleep while the other caller's
\* fetch had already been recorded.
C26_Witness ==
    /\ fetch["t1"].pc = "cancelled"
    /\ fetch["t2"].pc = "idle"
    /\ nfetch = 1
    /\ provider_stats["alpaca"].request_count = 1
    /\ provider_stats["alpaca"].success_count = 0
    /\ provider_stats["alpaca"].error_count = 0
    /\ circuit_breakers["alpaca"].failure_count = 0

C26_WitnessConcurrent ==
    /\ fetch["t1"].pc = "cancelled"
    /\ fetch["t1"].sleeps # <<>>
    /\ fetch["t2"].pc = "done"
    /\ provider_stats["alpaca"].request_count = 2
    /\ provider_stats["alpaca"].success_count + provider_stats["alpaca"].error_count = 1


\* Every fetch has finished and its caller has the result.
AllFinished == \A t \in ConcTasks : fetch[t].pc = "idle"

\* C30: whatever the interleaving of the concurrent fetches, once they have
\* all finished each provider's success_count and error_count are the
\* numbers of its attempts that ended in a success and in a failure, and the
\* failure_count of its breaker is the number of its failures since its last
\* success.
C30_NoLostUpdates ==
    AllFinished =>
        \A p \in ProviderNames :
            /\ provider_stats[p].success_count = session.succeeded[p]
            /\ provider_stats[p].error_count = session.failed[p]
            /\ circuit_breakers[p].failure_count = session.streak[p]

\* C30 with the attempts of crypto fetches set apart: at every moment every
\* success is counted once, every failure of an equity fetch is counted once
\* and those of crypto fetches are not counted, and failure_count is the
\* number of failures in equity fetches since the last success in one.
C30_NoLostUpdatesEquity ==
    \A p \in ProviderNames :
        /\ provider_stats[p].success_count = session.succeeded[p]
        /\ provider_stats[p].error_count = session.failed[p] - session.failed_crypto[p]
        /\ circuit_breakers[p].failure_count = session.streak_equity[p]

\* Two equity fetches ran their attempts on alpaca at the same time, one
\* failed and the other succeeded after it, and both have finished.
C30_WitnessInterleaved ==
    /\ AllFinished
    /\ nfetch = 2
    /\ session.succeeded["alpaca"] = 1
    /\ session.failed["alpaca"] = 1
    /\ session.failed_crypto["alpaca"] = 0
    /\ session.streak["alpaca"] = 0
    /\ provider_stats["alpaca"].last_error < provider_stats["alpaca"].last_success

\* Both fetches are inside an attempt on alpaca.
C30_WitnessConcurrent ==
    /\ \A t \in ConcTasks : Attempting(fetch[t]) /\ fetch[t].invoked = <<"alpaca">>
    /\ provider_stats["alpaca"].request_count = 2


\* ---------------------------------------------------------------------
\* Claims about the half-open breaker, checked under SpecProbe
\* ---------------------------------------------------------------------

\* C27: between the moment a breaker becomes half-open and the next
\* call_succeeded() or call_failed() on it, it admits at most one attempt,
\* with concurrent fetches and status queries in between.
C27_OneProbe ==
    \A p \in ProviderNames : session.probes[p] <= 1

\* While a fetch of one caller is the only one to meet the half-open
\* breaker, one attempt is admitted: the count is above one only with two
\* fetches inside their attempts at once.
C27_OneProbePerCaller ==
    \A p \in ProviderNames :
        /\ session.probes[p] <= Cardinality({t \in ConcTasks : Attempting(fetch[t])})
        /\ session.probes[p] > 0 => circuit_breakers[p].state = "half-open"

\* The breaker is half-open, one probe is in flight, and the other caller
\* has not started its fetch; and the probe was admitted after a status
\* query had moved the breaker to half-open.
C27_WitnessOneProbe ==
    /\ circuit_breakers["alpaca"].state = "half-open"
    /\ session.probes["alpaca"] = 1
    /\ fetch["t1"].pc = "call"
    /\ fetch["t2"].pc = "idle"

C27_WitnessTwoProbes ==
    /\ circuit_breakers["alpaca"].state = "half-open"
    /\ session.probes["alpaca"] = 2
    /\ fetch["t1"].pc = "call"
    /\ fetch["t2"].pc = "call"


\* ---------------------------------------------------------------------
\* Claims about the frame of a successful fetch, checked under Spec
\* ---------------------------------------------------------------------

\* The providers that come after position k in the priority order of the
\* fetch f, and the position of a provider in that order.
After(f, k) ==
    LET order == PriorityOrder(f.kind, f.crypto)
    IN  {order[j] : j \in (k + 1)..Len(order)}

PositionOf(f, p) ==
    LET order == PriorityOrder(f.kind, f.crypto)
    IN  CHOOSE k \in 1..Len(order) : order[k] = p

\* The fetch has returned the value of a provider: no provider of lower
\* priority was invoked or has another request, success or error than when
\* the fetch began.
LowerUntouched(f) ==
    f.winner # "none" =>
        \A p \in After(f, PositionOf(f, f.winner)) :
            /\ p \notin Names(f.invoked)
            /\ provider_stats[p].request_count = f.stats0[p].request_count
            /\ provider_stats[p].success_count = f.stats0[p].success_count
            /\ provider_stats[p].error_count = f.stats0[p].error_count
            /\ provider_stats[p].last_success = f.stats0[p].last_success
            /\ provider_stats[p].last_error = f.stats0[p].last_error

\* The breaker of the provider that succeeded is closed and counts no
\* failure.
WinnerClosed(f) ==
    f.winner # "none" =>
        /\ circuit_breakers[f.winner].state = "closed"
        /\ circuit_breakers[f.winner].failure_count = 0

\* No step of a fetch changes the breaker of a provider that comes after
\* the block the fetch is in.
C29_StepPart ==
    \A t \in Tasks :
        (fetch'[t] # fetch[t] /\ fetch'[t].pc # "idle") =>
            \A p \in After(fetch'[t], IF fetch'[t].winner # "none"
                                      THEN PositionOf(fetch'[t], fetch'[t].winner)
                                      ELSE Len(fetch'[t].invoked)) :
                p \notin Names(fetch'[t].invoked) =>
                    circuit_breakers'[p] = circuit_breakers[p]

\* C29: when a provider succeeds the call returns at once: no provider of
\* lower priority is invoked, none has its request_count, success_count,
\* error_count or breaker changed by the call, and the breaker of the
\* provider that succeeded is closed with failure_count 0.
C29_ShortCircuit ==
    /\ [](\A t \in Tasks : fetch[t].pc = "done" =>
              LowerUntouched(fetch[t]) /\ WinnerClosed(fetch[t]))
    /\ [][C29_StepPart]_vars

\* C29 with the breaker of the winner left out for crypto fetches.
C29_ShortCircuitEquity ==
    /\ [](\A t \in Tasks : fetch[t].pc = "done" =>
              /\ LowerUntouched(fetch[t])
              /\ ~fetch[t].crypto => WinnerClosed(fetch[t]))
    /\ [][C29_StepPart]_vars

\* An equity fetch returned the value of polygon after alpaca had failed;
\* and one returned the value of alpaca, whose breaker had counted failures
\* before.
C29_WitnessSecond ==
    \E t \in Tasks :
        /\ fetch[t].pc = "done" /\ ~fetch[t].crypto /\ fetch[t].kind = "price"
        /\ fetch[t].winner = "polygon"
        /\ fetch[t].failed = {"alpaca"}
        /\ provider_stats["yfinance"].request_count = 0
        /\ circuit_breakers["alpaca"].failure_count = 1

C29_WitnessReset ==
    \E t \in Tasks :
        /\ fetch[t].pc = "done" /\ ~fetch[t].crypto
        /\ fetch[t].winner = "alpaca"
        /\ fetch[t].stats0["alpaca"].error_count >= 2
        /\ fetch[t].stats0["alpaca"].success_count = 0
        /\ circuit_breakers["alpaca"].failure_count = 0

\* A crypto fetch returned the value of alpaca while the breaker of alpaca
\* counts failures.
C29_WitnessCrypto ==
    \E t \in Tasks :
        /\ fetch[t].pc = "done" /\ fetch[t].crypto
        /\ fetch[t].winner = "alpaca"
        /\ circuit_breakers["alpaca"].failure_count > 0


\* ---------------------------------------------------------------------
\* Claims about failure isolation, checked under SpecIsolation
\* ---------------------------------------------------------------------

\* The timeout of the breaker of p has elapsed since its last failure.
TimeoutElapsed(p) ==
    /\ circuit_breakers[p].last_failure_time # NoTime
    /\ now - circuit_breakers[p].last_failure_time > circuit_breakers[p].timeout

\* The providers of the chain of the fetch f whose client is configured.
Applicable(f) ==
    LET chain == ChainOf(f.kind, f.crypto)
    IN  {chain[k].name : k \in {j \in 1..Len(chain) : chain[j].client \in providers}}

\* A finished fetch returns the value of the first provider it invoked that
\* answered with a valid one; it returns None only when every applicable
\* provider failed, answered with nothing or was refused by its breaker.
ReturnsHealthy(f) ==
    /\ f.winner # "none" => (f.res = f.quoted /\ f.res # NoData)
    /\ (f.winner = "none" /\ ~f.raised) =>
           Applicable(f) \subseteq (f.failed \cup f.empty \cup f.forbidden)

\* C28: once a provider has failed threshold fetches in a row, no later
\* fetch made before the timeout of its breaker has elapsed invokes it, and
\* a fetch returns the data of a healthy provider of lower priority: None
\* is returned only when no applicable provider is healthy.
C28_StepPart ==
    \A t \in Tasks :
        \A p \in NewlyInvoked(t) :
            ~(session.streak[p] >= CIRCUIT_BREAKER_THRESHOLD /\ ~TimeoutElapsed(p))

C28_FailureIsolation ==
    /\ [](\A t \in Tasks : fetch[t].pc = "done" => ReturnsHealthy(fetch[t]))
    /\ [][C28_StepPart]_vars

\* C28 for equity fetches and the failures of equity fetches.
C28_StepPartEquity ==
    \A t \in Tasks :
        ~fetch'[t].crypto =>
            \A p \in NewlyInvoked(t) :
                ~(session.streak_equity[p] >= CIRCUIT_BREAKER_THRESHOLD /\ ~TimeoutElapsed(p))

C28_FailureIsolationEquity ==
    /\ [](\A t \in Tasks : fetch[t].pc = "done" => ReturnsHealthy(fetch[t]))
    /\ [](\A p \in ProviderNames :
            session.streak_equity[p] >= CIRCUIT_BREAKER_THRESHOLD =>
                circuit_breakers[p].state \in {"open", "half-open"})
    /\ [][C28_StepPartEquity]_vars

\* alpaca failed five equity fetches in a row, and the sixth, made before
\* the timeout, passed it over and returned the price of yfinance.
C28_WitnessIsolated ==
    \E t \in Tasks :
        /\ session.streak_equity["alpaca"] = CIRCUIT_BREAKER_THRESHOLD
        /\ ~TimeoutElapsed("alpaca")
        /\ fetch[t].pc = "done" /\ ~fetch[t].crypto
        /\ fetch[t].forbidden = {"alpaca"}
        /\ fetch[t].invoked = <<"yfinance">>
        /\ fetch[t].winner = "yfinance"
        /\ fetch[t].res.price \in PriceValues

\* The same breaker is open and a crypto fetch has invoked alpaca.
C28_WitnessCrypto ==
    \E t \in Tasks :
        /\ session.streak_equity["alpaca"] = CIRCUIT_BREAKER_THRESHOLD
        /\ circuit_breakers["alpaca"].state = "open"
        /\ ~TimeoutElapsed("alpaca")
        /\ fetch[t].pc = "done" /\ fetch[t].crypto
        /\ fetch[t].invoked[1] = "alpaca"

(***************************************************************************)
(* C31: a timed-out call is a retryable network failure                    *)
(***************************************************************************)
\* The step that ends the wait of task t for a vendor that does not answer.
TimedOut(t) ==
    /\ fetch[t].pc = "hung"
    /\ ~fetch[t].crypto
    /\ fetch'[t] # fetch[t]

\* C31: when the per-attempt timeout of an equity adapter call expires, the
\* call ends with a NetworkError.  While the retry budget lasts the wrapper
\* sleeps for the current delay and nothing is recorded on the provider; at
\* the last attempt the NetworkError leaves the adapter, and the provider
\* block records it as a failure of that provider after
\* ADAPTER_MAX_RETRIES + 1 attempts.  A sleeping call always has an attempt
\* left.
C31_StepPart ==
    \A t \in Tasks :
        TimedOut(t) =>
            LET f == fetch[t]
                g == fetch'[t]
                p == ChainOf(f.kind, FALSE)[f.idx].name
            IN  IF f.attempt < ADAPTER_MAX_RETRIES
                THEN /\ g.pc = "sleep"
                     /\ g.idx = f.idx
                     /\ g.lasterr = "NetworkError"
                     /\ g.sleeps = Append(f.sleeps, f.delay)
                     /\ g.nattempts = f.nattempts + 1
                     /\ provider_stats' = provider_stats
                     /\ circuit_breakers' = circuit_breakers
                ELSE /\ g.pc # "sleep"
                     /\ g.lastcall.name = p
                     /\ g.lastcall.end = "NetworkError"
                     /\ g.lastcall.attempts = ADAPTER_MAX_RETRIES + 1
                     /\ Len(g.lastcall.sleeps) = ADAPTER_MAX_RETRIES
                     /\ p \in g.failed
                     /\ p \in g.exhausted
                     /\ provider_stats'[p].error_count =
                            provider_stats[p].error_count + 1
                     /\ circuit_breakers'[p] = call_failed(circuit_breakers[p], now)

C31_StateParts ==
    \A t \in Tasks :
        fetch[t].pc = "sleep" => fetch[t].attempt < ADAPTER_MAX_RETRIES

C31_TimeoutIsNetworkError == [](C31_StateParts) /\ [][C31_StepPart]_vars

\* Every attempt of a call timed out: the NetworkError left the adapter after
\* three attempts and two sleeps.
C31_Witness ==
    \E t \in Tasks :
        /\ fetch[t].lastcall.end = "NetworkError"
        /\ fetch[t].lastcall.first = "NetworkError"
        /\ fetch[t].lastcall.attempts = ADAPTER_MAX_RETRIES + 1
        /\ fetch[t].lastcall.name \in fetch[t].failed

\* A call timed out, was attempted again and answered.
C31_WitnessRetried ==
    \E t \in Tasks :
        /\ fetch[t].lastcall.end = "ok"
        /\ fetch[t].lastcall.first = "NetworkError"
        /\ fetch[t].winner = fetch[t].lastcall.name

(***************************************************************************)
(* C32: exponential backoff with cap                                       *)
(***************************************************************************)
\* The k-th sleep of a call retried with the default delays: 1, 2, 4, 8 and
\* 10 seconds from then on.
DefaultSleep(k) == IF k = 1 THEN 1 ELSE IF k = 2 THEN 2 ELSE IF k = 3 THEN 4 ELSE IF k = 4 THEN 8 ELSE 10

\* C32: the wrapper sleeps exactly once between two consecutive attempts
\* and not after the last one; the first sleep is the initial delay, every
\* other sleep is the smaller of twice the one before and the cap, so the
\* sleeps never decrease, never exceed the cap and are 1, 2, 4, 8, 10, 10,
\* ... with the default settings.
C32_BackoffWithCap ==
    calc.op = "retry" =>
        LET r == calc.retry
            s == r.sleeps
        IN  /\ Len(s) = r.attempts - 1
            /\ r.attempts <= r.max_retries + 1
            /\ \A k \in 1..Len(s) : r.outcomes[k] \in RetryableErrors
            /\ Len(s) >= 1 => s[1] = INITIAL_RETRY_DELAY
            /\ \A k \in 2..Len(s) :
                   /\ s[k] = (IF 2 * s[k - 1] < MAX_RETRY_DELAY
                              THEN 2 * s[k - 1] ELSE MAX_RETRY_DELAY)
                   /\ s[k] >= s[k - 1]
            /\ \A k \in 1..Len(s) : s[k] <= MAX_RETRY_DELAY /\ s[k] = DefaultSleep(k)

\* Every attempt of a call with six retries failed on a retryable error:
\* the last sleeps were at the cap.
C32_Witness ==
    /\ calc.op = "retry"
    /\ calc.retry.end \in RetryableErrors
    /\ calc.retry.attempts = 7
    /\ calc.retry.sleeps = <<1, 2, 4, 8, 10, 10>>

\* A call answered at its third attempt, after sleeps of 1 and 2 seconds.
C32_WitnessAnswered ==
    /\ calc.op = "retry"
    /\ calc.retry.end = "ok"
    /\ calc.retry.sleeps = <<INITIAL_RETRY_DELAY, 2 * INITIAL_RETRY_DELAY>>

(***************************************************************************)
(* C33: exit rules                                                         *)
(***************************************************************************)
\* The current price is at or beyond the stop-loss level of the trade, and
\* at or beyond its take-profit level, on the side that counts for a long
\* and for a short position.
StopHit(trade, price) ==
    IF trade.signal \in {"BUY", "STRONG_BUY"}
    THEN price <= trade.stop_loss ELSE price >= trade.stop_loss
TakeHit(trade, price) ==
    IF trade.signal \in {"BUY", "STRONG_BUY"}
    THEN price >= trade.take_profit ELSE price <= trade.take_profit

\* C33: the exit branch closes an open position as "stopped" exactly when
\* stop-loss is enabled and the price has reached the stop-loss level, and
\* as "win" exactly when it is not stopped, take-profit is enabled and the
\* price has reached the take-profit level; otherwise the position stays
\* open, as it always does with both rules disabled.
C33_ExitRules ==
    calc.op = "close" =>
        LET trade == calc.trade
            stopped == calc.exit /\ trade.status = "stopped"
            won == calc.exit /\ trade.status = "win"
            stop == calc.use_stop_loss /\ StopHit(trade, calc.price)
            take == calc.use_take_profit /\ TakeHit(trade, calc.price)
        IN  /\ stopped <=> stop
            /\ won <=> (~stop /\ take)
            /\ calc.exit <=> (stopped \/ won)
            /\ ~calc.exit => trade.status = "open" /\ trade.exit_price = None
            /\ (~calc.use_stop_loss /\ ~calc.use_take_profit) => ~calc.exit

\* A long position whose price is at both levels with both rules enabled:
\* it is stopped.
C33_Witness ==
    /\ calc.op = "close"
    /\ calc.trade.signal = "STRONG_BUY"
    /\ calc.use_stop_loss /\ calc.use_take_profit
    /\ StopHit(calc.trade, calc.price) /\ TakeHit(calc.trade, calc.price)
    /\ calc.exit /\ calc.trade.status = "stopped"

\* A short position taken at its take-profit level while its stop-loss
\* level, reached too, is disabled.
C33_WitnessShortWin ==
    /\ calc.op = "close"
    /\ calc.trade.signal = "SELL"
    /\ ~calc.use_stop_loss /\ calc.use_take_profit
    /\ StopHit(calc.trade, calc.price)
    /\ calc.price < calc.trade.take_profit
    /\ calc.exit /\ calc.trade.status = "win"

\* Both levels reached with both rules disabled: the position stays open.
C33_WitnessDisabled ==
    /\ calc.op = "close"
    /\ ~calc.use_stop_loss /\ ~calc.use_take_profit
    /\ StopHit(calc.trade, calc.price) /\ TakeHit(calc.trade, calc.price)
    /\ ~calc.exit

\* The same in a run: on a bar that starts with a position open the loop
\* closes it as the rules say, and a run with both rules disabled has no
\* trade closed by the loop.
C33_StepPart ==
    (run.pc = "loop" /\ run.open_position # None /\ run'.i = run.i + 1) =>
        LET trade == run.open_position[1]
            price == Close(run.path, run.i)
            stop == run.use_stop_loss /\ StopHit(trade, price)
            take == run.use_take_profit /\ TakeHit(trade, price)
            closed == Len(run'.trades) = Len(run.trades) + 1
        IN  /\ closed <=> (stop \/ take)
            /\ closed => /\ run'.trades[Len(run'.trades)].status =
                                IF stop THEN "stopped" ELSE "win"
                         /\ run'.trades[Len(run'.trades)].exit_price = Some(price)
            /\ ~closed => run'.trades = run.trades /\ run'.open_position = run.open_position

C33_StateParts ==
    (~run.use_stop_loss /\ ~run.use_take_profit) =>
        \A k \in 1..Len(run.trades) : run.trades[k].status = "end_of_period"

C33_ExitRulesInRun == [](C33_StateParts) /\ [][C33_StepPart]_vars

(***************************************************************************)
(* C34: entry gating                                                       *)
(***************************************************************************)
\* C34: a trade is created only by the loop, on a bar past the warm-up
\* window and on the evaluation cadence, with no position open once that
\* bar's exit check is done (none was open, or the open one was closed on
\* this bar), from a signal that is not NEUTRAL and has at least the minimum
\* confidence; it is entered at the bar's close with the quantity
\* capital * position_size_pct / price, for the capital as it is after the
\* bar's exit check, and it becomes the open position.
C34_StepPart ==
    Len(run'.ledger) > Len(run.ledger) =>
        LET trade == run'.ledger[Len(run'.ledger)]
            i == run.i
            price == Close(run.path, i)
        IN  /\ run.pc = "loop"
            /\ Len(run'.ledger) = Len(run.ledger) + 1
            /\ \/ run.open_position = None
               \/ /\ Len(run'.trades) = Len(run.trades) + 1
                  /\ run'.trades[Len(run'.trades)].exit_time = Some(i)
                  /\ run'.trades[Len(run'.trades)].entry_time =
                         run.open_position[1].entry_time
            /\ i >= WARMUP_BARS
            /\ i % ENTRY_CADENCE = 0
            /\ trade.confidence >= MIN_CONFIDENCE
            /\ trade.signal # "NEUTRAL"
            /\ trade.entry_time = i
            /\ trade.entry_price = price
            /\ trade.quantity = ((run'.capital * POSITION_SIZE_PCT) \div 100) \div price
            /\ trade.status = "open"
            /\ run'.open_position = Some(trade)

C34_EntryGating == [][C34_StepPart]_vars

\* A second trade was entered on the bar that closed the first, sized on the
\* capital that the first trade had changed.
C34_Witness ==
    /\ Len(run.ledger) = 2
    /\ run.open_position # None
    /\ run.ledger[1].exit_time = Some(run.ledger[2].entry_time)
    /\ run.capital # Money(INITIAL_CAPITAL)
    /\ run.ledger[2].quantity =
           ((run.capital * POSITION_SIZE_PCT) \div 100) \div run.ledger[2].entry_price
    /\ run.ledger[2].quantity #
           ((Money(INITIAL_CAPITAL) * POSITION_SIZE_PCT) \div 100)
               \div run.ledger[2].entry_price

\* A trade was entered on the first bar after the warm-up window, at that
\* bar's close and sized on the initial capital.
C34_WitnessFirstBar ==
    /\ Len(run.ledger) = 1
    /\ run.open_position # None
    /\ run.ledger[1].entry_time = WARMUP_BARS
    /\ run.ledger[1].entry_price = Close(run.path, WARMUP_BARS)
    /\ run.ledger[1].quantity =
           ((Money(INITIAL_CAPITAL) * POSITION_SIZE_PCT) \div 100)
               \div run.ledger[1].entry_price

(***************************************************************************)
(* C35: capital accounting                                                 *)
(***************************************************************************)
\* C35, in one step of a run under way: the capital changes only in a step
\* that closes a trade, every step that closes a trade adds that trade's net
\* P&L to the capital, and an equity point is appended only together with a
\* closed trade and is the last equity point plus that trade's net P&L.
C35_StepPart ==
    (run.pc = "loop" /\ run' # run) =>
        LET n == Len(run.trades)
            closes == Len(run'.trades) = n + 1
            m == Len(run.equity_curve)
        IN  /\ Len(run'.trades) \in {n, n + 1}
            /\ ~closes => run'.capital = run.capital
            /\ closes => run'.capital = run.capital + run'.trades[n + 1].pnl[1]
            /\ Len(run'.equity_curve) \in {m, m + 1}
            /\ Len(run'.equity_curve) = m + 1 =>
                   /\ closes
                   /\ run'.equity_curve[m + 1].equity =
                          run.equity_curve[m].equity + run'.trades[n + 1].pnl[1]

\* C35, at every point of a run and in its result: the capital is the
\* initial capital plus the net P&L of the trades closed so far.
C35_StateParts ==
    /\ run.pc \in {"loop", "hung"} =>
           run.capital = Money(INITIAL_CAPITAL) + SumOf(Pnls(run.trades))
    /\ run.pc = "returned" =>
           LET result == run.result[1]
           IN  /\ result.initial_capital = Money(INITIAL_CAPITAL)
               /\ result.final_capital =
                      result.initial_capital + SumOf(Pnls(result.trades))

C35_CapitalAccounting == [](C35_StateParts) /\ [][C35_StepPart]_vars

\* A run returned two trades with a P&L, one closed by the loop and one at
\* the end of the period, and a final capital other than the initial one.
C35_Witness ==
    /\ run.pc = "returned"
    /\ Len(run.result[1].trades) = 2
    /\ run.result[1].trades[1].status \in {"win", "stopped"}
    /\ run.result[1].trades[1].pnl[1] # 0
    /\ run.result[1].trades[2].status = "end_of_period"
    /\ run.result[1].trades[2].pnl[1] # 0
    /\ run.result[1].final_capital # run.result[1].initial_capital
    /\ Len(run.result[1].equity_curve) = 2

(***************************************************************************)
(* C36: chronological replay                                               *)
(***************************************************************************)
\* C36, the order: the loop starts at the warm-up index, every iteration
\* handles the bar at the index and moves the index on by one (or stays at
\* the bar for good when the signal request does not return), and the run
\* returns only when the index has passed the last bar.
C36_Order ==
    /\ (run.pc = "idle" /\ run'.pc = "loop") => run'.i = WARMUP_BARS
    /\ (run.pc = "loop" /\ run' # run) =>
           \/ run'.pc = "loop" /\ run.i < run.nbars /\ run'.i = run.i + 1
           \/ run'.pc = "hung" /\ run.i < run.nbars /\ run'.i = run.i
           \/ run'.pc = "returned" /\ run.i = run.nbars /\ run'.i = run.i

\* C36, the exit check: an iteration that starts with a position open closes
\* it on this bar, at this bar's close, exactly when the enabled rules say so
\* at this bar's close, whatever the index and whatever the signal request
\* of the iteration does; and a position entered in an iteration is left
\* open by it, even with its levels at the entry price.
C36_ExitChecked ==
    (run.pc = "loop" /\ run.i < run.nbars /\ run' # run) =>
        /\ run.open_position # None =>
               LET trade == run.open_position[1]
                   price == Close(run.path, run.i)
                   due == \/ run.use_stop_loss /\ StopHit(trade, price)
                          \/ run.use_take_profit /\ TakeHit(trade, price)
                   closed == /\ Len(run'.trades) = Len(run.trades) + 1
                             /\ run'.trades[Len(run'.trades)].entry_time = trade.entry_time
                             /\ run'.trades[Len(run'.trades)].exit_time = Some(run.i)
                             /\ run'.trades[Len(run'.trades)].exit_price = Some(price)
               IN  /\ due => closed
                   /\ ~due => run'.trades = run.trades /\ run'.open_position = run.open_position
        /\ Len(run'.ledger) > Len(run.ledger) =>
               /\ run'.ledger[Len(run'.ledger)].entry_time = run.i
               /\ run'.ledger[Len(run'.ledger)].status = "open"
               /\ run'.open_position = Some(run'.ledger[Len(run'.ledger)])

C36_StateParts ==
    /\ run.pc \in {"loop", "hung"} => run.i >= WARMUP_BARS /\ run.i <= run.nbars
    /\ run.pc = "returned" => run.i = run.nbars
    /\ \A k \in 1..Len(run.trades) :
           run.trades[k].status \in {"win", "stopped"} =>
               run.trades[k].exit_time[1] > run.trades[k].entry_time

C36_ChronologicalReplay ==
    [](C36_StateParts) /\ [][C36_Order /\ C36_ExitChecked]_vars

\* A position closed on an off-cadence bar, the one after its entry; the
\* trade before it was closed on the bar on which this one was entered.
C36_Witness ==
    /\ Len(run.trades) = 2
    /\ run.trades[1].exit_time = Some(run.trades[2].entry_time)
    /\ run.trades[2].status \in {"win", "stopped"}
    /\ run.trades[2].exit_time = Some(run.trades[2].entry_time + 1)
    /\ run.trades[2].exit_time[1] % ENTRY_CADENCE # 0

\* A position entered on the first bar was closed on a cadence bar and the
\* signal request of that very iteration raised.
C36_WitnessRaised ==
    /\ run.pc = "loop"
    /\ run.nraised = 1 /\ run.nsignals = 1
    /\ Len(run.trades) = 1
    /\ run.trades[1].entry_time = WARMUP_BARS
    /\ run.trades[1].exit_time = Some(run.i - 1)

\* A run over all the bars returned.
C36_WitnessReturned ==
    /\ run.pc = "returned" /\ run.nbars = MaxBars /\ run.i = MaxBars
    /\ Len(run.trades) >= 1

(***************************************************************************)
(* C37: Sharpe ratio                                                       *)
(***************************************************************************)
\* The P&L percentages of the trades of a result, and whether they have no
\* variance.
PnlPcts(trades) == [k \in 1..Len(trades) |-> trades[k].pnl_pct[1]]
ZeroVariance(values) == \A k \in 1..Len(values) : values[k] = values[1]

\* C37: the Sharpe ratio of a result is 0 whenever the result has fewer
\* than two trades or its trades' P&L percentages have zero variance, and it
\* is never the quotient of a division by a zero standard deviation.
C37_SharpeRatio ==
    run.pc = "returned" =>
        LET result == run.result[1]
        IN  /\ result.sharpe_ratio.kind # "zero_std"
            /\ (Len(result.trades) < 2 \/ ZeroVariance(PnlPcts(result.trades))) =>
                   result.sharpe_ratio = ZeroRatio

\* What holds instead: the ratio is 0 with fewer than two trades (and with
\* fewer than two trades of non-zero P&L percentage); it is a finite
\* quotient with the sign of the mean when the non-zero percentages differ;
\* and it is the quotient by a zero standard deviation when there are two or
\* more of them and they are all the same.
C37_SharpeRatioFewTrades ==
    run.pc = "returned" =>
        LET result == run.result[1]
            pcts == PnlPcts(result.trades)
            returns == SelectSeq(pcts, LAMBDA v : v # 0)
        IN  /\ Len(result.trades) < 2 => result.sharpe_ratio = ZeroRatio
            /\ Len(returns) < 2 <=> result.sharpe_ratio = ZeroRatio
            /\ (Len(returns) >= 2 /\ ~ZeroVariance(returns)) <=>
                   result.sharpe_ratio = [kind |-> "finite", sign |-> Sign(SumOf(returns))]
            /\ (Len(returns) >= 2 /\ ZeroVariance(returns)) <=>
                   result.sharpe_ratio.kind = "zero_std"

\* A run returned two trades with the same P&L percentage, other than 0: the
\* mean was divided by a standard deviation of zero.
C37_WitnessZeroVariance ==
    /\ run.pc = "returned"
    /\ Len(run.result[1].trades) = 2
    /\ run.result[1].trades[1].pnl_pct = run.result[1].trades[2].pnl_pct
    /\ run.result[1].trades[1].pnl_pct[1] # 0
    /\ run.result[1].sharpe_ratio.kind = "zero_std"

\* A run returned two trades with different P&L percentages and a finite
\* ratio; a run returned one trade and the ratio 0.
C37_WitnessFinite ==
    /\ run.pc = "returned"
    /\ Len(run.result[1].trades) = 2
    /\ run.result[1].sharpe_ratio.kind = "finite"
C37_WitnessOneTrade ==
    /\ run.pc = "returned"
    /\ Len(run.result[1].trades) = 1
    /\ run.result[1].trades[1].pnl_pct[1] # 0
    /\ run.result[1].sharpe_ratio = ZeroRatio

(***************************************************************************)
(* C38: get_provider_status as a query                                     *)
(***************************************************************************)
\* The step is a call of get_provider_status.
StatusQueried == status_report' # NoStatus

\* C38: a call of get_provider_status changes no breaker (state,
\* failure_count, last_failure_time), no counter and no timestamp of any
\* provider, and no fetch.
C38_PureQuery ==
    [][StatusQueried =>
          /\ circuit_breakers' = circuit_breakers
          /\ provider_stats' = provider_stats
          /\ fetch' = fetch]_vars

\* What holds instead: the call changes no counter, no timestamp, no fetch,
\* no failure_count and no last_failure_time; the state of a breaker changes
\* only from open to half-open, when the timeout of the breaker is over; and
\* the next can_attempt() on a breaker, now or later, answers and leaves the
\* breaker as it would have without the call.
C38_QueryHalfOpens ==
    [][StatusQueried =>
          /\ provider_stats' = provider_stats
          /\ fetch' = fetch
          /\ \A p \in ProviderNames :
                 LET cb == circuit_breakers[p]
                 IN  /\ circuit_breakers'[p].failure_count = cb.failure_count
                     /\ circuit_breakers'[p].last_failure_time = cb.last_failure_time
                     /\ circuit_breakers'[p].state # cb.state =>
                            /\ cb.state = "open"
                            /\ circuit_breakers'[p].state = "half-open"
                            /\ now - cb.last_failure_time > CIRCUIT_BREAKER_TIMEOUT
                     /\ \A t \in {now, now + 1, now + CIRCUIT_BREAKER_TIMEOUT + 1} :
                            can_attempt(circuit_breakers'[p], t) = can_attempt(cb, t)]_vars

\* A status query found the breaker of a provider open after its timeout
\* and left it half-open, with the failures that had opened it still counted.
C38_WitnessHalfOpened ==
    /\ status_report # NoStatus
    /\ status_report["alpaca"].circuit_breaker_state = "open"
    /\ status_report["alpaca"].can_attempt
    /\ circuit_breakers["alpaca"].state = "half-open"
    /\ circuit_breakers["alpaca"].failure_count >= CIRCUIT_BREAKER_THRESHOLD

\* A status query made before the timeout of an open breaker left it open.
C38_WitnessLeftOpen ==
    /\ status_report # NoStatus
    /\ status_report["alpaca"].circuit_breaker_state = "open"
    /\ ~status_report["alpaca"].can_attempt
    /\ circuit_breakers["alpaca"].state = "open"
    /\ \E t \in Tasks : fetch[t].pc # "idle"

(***************************************************************************)
(* C39: request accounting                                                 *)
(***************************************************************************)
\* No fetch is in flight: every call of get_price and get_historical_data
\* has not begun or has its result.
NoneInFlight == \A t \in ConcTasks : fetch[t].pc \in {"idle", "done"}

\* Requests of a provider that are counted neither as a success nor as an
\* error.
Unaccounted(stats) == stats.request_count - stats.success_count - stats.error_count

\* C39: whenever no fetch is in flight, every provider has
\* request_count = success_count + error_count.
C39_RequestAccounting ==
    NoneInFlight => \A p \in ProviderNames : Unaccounted(provider_stats[p]) = 0

\* What holds instead: a finished equity fetch has added to every provider
\* as many requests as successes and errors together; a finished crypto
\* fetch has added a request for every provider it invoked, a success for
\* the provider whose value it returns and no error at all; so no provider
\* ever has fewer requests than successes and errors.
C39_RequestAccountingEquity ==
    /\ NoneInFlight => \A p \in ProviderNames : Unaccounted(provider_stats[p]) >= 0
    /\ \A t \in Tasks :
           LET f == fetch[t]
           IN  f.pc = "done" =>
                 \A p \in ProviderNames :
                     IF ~f.crypto
                     THEN Unaccounted(provider_stats[p]) = Unaccounted(f.stats0[p])
                     ELSE /\ provider_stats[p].error_count = f.stats0[p].error_count
                          /\ provider_stats[p].success_count =
                                 f.stats0[p].success_count + (IF f.winner = p THEN 1 ELSE 0)
                          /\ provider_stats[p].request_count =
                                 f.stats0[p].request_count
                                     + (IF p \in Names(f.invoked) THEN 1 ELSE 0)

\* An equity price fetch failed on one provider and was answered by the
\* next: every request of the service is a success or an error.
C39_WitnessEquity ==
    /\ NoneInFlight
    /\ \E t \in Tasks :
           /\ fetch[t].pc = "done" /\ ~fetch[t].crypto
           /\ fetch[t].failed # {} /\ fetch[t].winner # "none"
    /\ \A p \in ProviderNames : Unaccounted(provider_stats[p]) = 0
    /\ \E p \in ProviderNames : provider_stats[p].error_count > 0

\* A crypto price fetch in which one provider raised and another had no
\* quote was answered by the third: two requests are neither successes nor
\* errors.
C39_WitnessCrypto ==
    /\ NoneInFlight
    /\ \E t \in Tasks :
           /\ fetch[t].pc = "done" /\ fetch[t].crypto
           /\ fetch[t].failed # {} /\ fetch[t].empty # {} /\ fetch[t].winner # "none"
           /\ \A p \in fetch[t].failed \cup fetch[t].empty :
                  Unaccounted(provider_stats[p]) = 1

(***************************************************************************)
(* C40: status and P&L                                                     *)
(***************************************************************************)
\* The trades of a sequence that were closed at their take-profit level, and
\* those with a net gain.
Wins(trades) == {k \in 1..Len(trades) : trades[k].status = "win"}
Gains(trades) == {k \in 1..Len(trades) : trades[k].pnl # None /\ trades[k].pnl[1] > 0}

\* C40: every trade closed with status "win" has a net P&L above 0, and is
\* counted in winning_trades of the result.
C40_WinIsProfit ==
    /\ \A k \in Wins(run.trades) : run.trades[k].pnl[1] > 0
    /\ run.pc = "returned" =>
           /\ Wins(run.result[1].trades) \subseteq Gains(run.result[1].trades)
           /\ run.result[1].winning_trades >= Cardinality(Wins(run.result[1].trades))

\* What holds instead: a trade closed with status "win" was closed at a
\* price at or beyond its take-profit level, which is at or beyond its entry
\* price, so its P&L before commission is not negative; its net P&L is that
\* less the commission on both notionals, of either sign; and
\* winning_trades counts the trades with a net P&L above 0, whatever their
\* status.
C40_WinIsGrossGain ==
    /\ \A k \in Wins(run.trades) :
           LET trade == run.trades[k]
               exit_price == trade.exit_price[1]
               gross == IF trade.signal \in {"BUY", "STRONG_BUY"}
                        THEN (exit_price - trade.entry_price) * trade.quantity
                        ELSE (trade.entry_price - exit_price) * trade.quantity
           IN  /\ TakeHit(trade, exit_price)
               /\ gross >= 0
               /\ trade.pnl[1] =
                      gross
                      - (trade.entry_price * trade.quantity * COMMISSION_PER_MILLE) \div 1000
                      - (exit_price * trade.quantity * COMMISSION_PER_MILLE) \div 1000
    /\ run.pc = "returned" =>
           run.result[1].winning_trades = Cardinality(Gains(run.result[1].trades))

\* A run returned a trade closed as "win" at its entry price, with a net
\* loss of the commission, and counts no winning trade.
C40_WitnessLosingWin ==
    /\ run.pc = "returned"
    /\ \E k \in Wins(run.result[1].trades) :
           /\ run.result[1].trades[k].exit_price = Some(run.result[1].trades[k].entry_price)
           /\ run.result[1].trades[k].pnl[1] < 0
    /\ run.result[1].winning_trades = 0

\* A run returned a trade closed as "win" with a net gain, counted as
\* winning.
C40_WitnessGain ==
    /\ run.pc = "returned"
    /\ \E k \in Wins(run.result[1].trades) : run.result[1].trades[k].pnl[1] > 0
    /\ run.result[1].winning_trades >= 1

====
